---------------------------- MODULE Spec2Model ----------------------------
(***************************************************************************)
(* Verification model of the WebSocket client examples of esp-protocols:   *)
(*   - the layered transport stack and its idempotent close                *)
(*     (examples/target/main/websocket_example.c, header comment),         *)
(*   - the echo handler and its reassembly accumulator                     *)
(*     (examples/autobahn-testsuite/testee/main/autobahn_testee.c).        *)
(***************************************************************************)
EXTENDS Integers, Sequences, FiniteSets, TLC

(***************************************************************************)
(* Bounds of the model.                                                    *)
(***************************************************************************)
MaxCloseCalls == 4      \* close() calls issued directly by call sites
MaxDetections == 3      \* call sites that detect one fatal failure
MaxChunks == 2          \* chunk boundaries lie at 0..MaxChunks buffers
MaxRetries == 7         \* failed passes of the echo retry loop whose delay is recorded
MaxFrames == 2          \* frames the peer sends on one connection
MaxRestarts == 1        \* times the client is started again after a connection was closed
MaxCases == 2           \* test cases run_test_case is called for
MaxCallbacks == 2       \* distinct callbacks handed to set_read_cb
MaxCalls == 2           \* invocations of the read callback that are counted
MaxLen == 8             \* longest transfer asked of read and write

(***************************************************************************)
(* TRANSPORT STACK                                                         *)
(***************************************************************************)
VARIABLES
    t_closed,      \* t->_closed of every transport handle
    t_runs,        \* how often t->_close (the layer's own handler) has run
    tls,           \* the TLS session owned by the ssl layer: "held" | "freed"
    doubleFree,    \* TRUE once free(tls) ran on an already freed session
    closeLog,      \* the direct close() calls so far: <<[layer, wasClosed, ret, ran]>>
    closeFailed,   \* layers whose close() has returned an error
    connState,     \* connection state machine
    connEvents,    \* events delivered to the consumer for this connection attempt
    wireOut,       \* frames the state machine wrote for the teardown
    detections,    \* number of call sites that have reported the fatal failure
    closeRx,       \* status code of the close frame received from the peer, 0 if none
    lastRx,        \* header of the frame the peer sent last
    rxCount,       \* number of frames the peer has sent
    violation,     \* the peer sent a frame that violates the protocol (history)
    closedAt,      \* events delivered when a close frame was first received or sent, -1 before (history)
    rxLate,        \* a data frame arrived after a close frame was received or sent (history)
    restarts       \* number of times the client was started again after Closed

transportVars == <<t_closed, t_runs, tls, doubleFree, closeLog, closeFailed>>
rxVars == <<closeRx, lastRx, rxCount, violation, rxLate>>
connVars == <<connState, connEvents, wireOut, detections, closedAt, rxVars, restarts>>

VARIABLES
    s_accumulator,   \* ws_accumulator_t s_accumulator
    s_accum_buffer,  \* the pre-allocated buffer pointer: "NULL" | "buf"
    mem,             \* contents of the buffer, one value per cell
    test_running,    \* static bool test_running
    connected,       \* what esp_websocket_client_is_connected(client) returns
    pc,              \* position of the handler: "idle" | "echo" | "send" | "sent"
    pending,         \* payload, len, send_opcode of the handler once past line 302
    evFin,           \* data->fin of the event being handled
    attempt,         \* int attempt of the echo retry loop
    lastErr,         \* what ws_accumulator_prepare returned to the last DATA event
    rxPing,          \* payload of the ping read in this read cycle, 0 if none
    txPong,          \* pongs written by the client itself in this read cycle
    gd,              \* the in-order chunked delivery in progress (history)
    doneMsg,         \* the last reassembled message that was handed on (history)
    dupHandoff,      \* a message was handed on again by a re-delivered chunk (history)
    lastEvent,       \* the event the handler was called with last (history)
    discarded,       \* a partly received message was cleared when the connection ended (history)
    sent,            \* int sent of the echo retry loop, -1 outside the loop
    waited,          \* the delays the retry loop has waited so far, in ticks (history)
    tick,            \* parity of the number of delays waited (history)
    txFrames         \* the frames the send path wrote for the echo: <<[opcode, fin, len]>>

sendVars == <<sent, waited, tick, txFrames>>

VARIABLES
    hEv,             \* the DATA event of the handler call in progress or just over (history)
    hPre             \* accumulator, buffer and flags as that call found them (history)

stepVars == <<hEv, hPre>>

VARIABLES
    runPc,           \* position of the main task in run_test_case
    test_done_sem,   \* the completion semaphore: "NULL" or "sem"
    semGiven,        \* the semaphore has been given and not yet taken
    caseNum,         \* number of the test case being run, 0 before the first
    runRet,          \* what run_test_case returned last
    runHist          \* what the current call has created and destroyed so far (history)

runVars == <<runPc, test_done_sem, semGiven, caseNum, runRet, runHist>>

VARIABLES
    heap             \* blocks of MAX_FRAGMENTED_PAYLOAD bytes: live, freed, copies gone wrong (history)

VARIABLES
    codecIn,     \* the frame header handed to encode_frame
    codecBytes,  \* the header bytes encode_frame produced
    codecOut     \* what parse_header made of the bytes

codecVars == <<codecIn, codecBytes, codecOut>>

VARIABLES
    loopPc,         \* position of the main task in websocket_app_start (websocket_example.c)
    exConnected,    \* esp_websocket_client_is_connected(client) of the example's client
    timerLeft,      \* seconds until shutdown_signal_timer expires, -1 while it is dormant
    shutdown_sema,  \* the shutdown semaphore has been given and not yet taken
    quiet,          \* seconds since the timer was last started or reset (history)
    exHist          \* destroys of the client, expiries that came too early (history)

loopVars == <<loopPc, exConnected, timerLeft, shutdown_sema, quiet, exHist>>

VARIABLES
    tbits,          \* the bits set in the terminal's SignalGroup
    on_data,        \* FdTerminal::on_data, the callback set_read_cb stored; 0 is nullptr
    on_data_priv,   \* the task's own copy of the callback
    tpc,            \* position of the terminal's task
    sel,            \* what select returned last
    selWait,        \* seconds the task has been waiting in select
    readable,       \* the descriptor has data to read
    fd,             \* the descriptor: "open" or "closed"
    cbPc,           \* position of the caller inside set_read_cb
    cbArg,          \* the callback that caller passes
    tHist           \* history of the terminal, for the claims

termVars == <<tbits, on_data, on_data_priv, tpc, sel, selWait, readable, fd, cbPc, cbArg, tHist>>

VARIABLES
    ioOp,           \* the transfer called last: "read", "write" or "none"
    ioLen,          \* its argument len
    ioRes,          \* what the underlying ::read or ::write returned
    ioErrno,        \* errno after the underlying call
    ioOut           \* what FdTerminal::read or FdTerminal::write returned

ioVars == <<ioOp, ioLen, ioRes, ioErrno, ioOut>>

\* no transfer called yet
InitIo ==
    /\ ioOp = "none"
    /\ ioLen = 0
    /\ ioRes = 0
    /\ ioErrno = "EAGAIN"
    /\ ioOut = 0

\* a std::function read while it was being assigned
Torn == -1

\* the terminal after FdTerminal::FdTerminal: the descriptor is open, the task is
\* created and has not run yet, no bit is set, no callback stored
InitTerm ==
    /\ tbits = {}
    /\ on_data = 0
    /\ on_data_priv = 0
    /\ tpc = "created"
    /\ sel = 0
    /\ selWait = 0
    /\ readable = FALSE
    /\ fd = "open"
    /\ cbPc = "idle"
    /\ cbArg = 0
    /\ InitIo
    /\ tHist = [stopCalled |-> FALSE, restarted |-> FALSE, selFailed |-> FALSE,
                obsStopped |-> FALSE, adopted |-> 0, closes |-> 0, calls |-> 0,
                lastRet |-> FALSE]

\* websocket_app_start not yet entered: no timer, no semaphore, no client
InitLoop ==
    /\ loopPc = "init"
    /\ exConnected = FALSE
    /\ timerLeft = -1
    /\ shutdown_sema = FALSE
    /\ quiet = 0
    /\ exHist = [destroys |-> 0, early |-> FALSE]

handlerVars == <<s_accumulator, s_accum_buffer, mem, test_running, connected, pc,
                 pending, evFin, attempt, lastErr, rxPing, txPong, gd, doneMsg, dupHandoff,
                 lastEvent, discarded, sendVars, stepVars, runVars, heap>>

Layers == {"ws", "ssl"}
NoLayer == "none"

\* WebSocket transport wraps SSL transport
Parent(t) == IF t = "ws" THEN "ssl" ELSE NoLayer

TStack == [closed |-> t_closed, runs |-> t_runs, tls |-> tls, dfree |-> doubleFree]

RECURSIVE esp_transport_close(_, _, _)
RECURSIVE transport_close_handler(_, _, _)

\* esp_transport_close as it was before the fix: no _closed check, no _closed set
esp_transport_close_unguarded(st, t, fail) ==
    IF t = NoLayer THEN [st |-> st, ret |-> 0]
    ELSE transport_close_handler(st, t, fail)

\* the fix with _closed set only when the handler succeeded
esp_transport_close_set_on_success(st, t, fail) ==
    IF t = NoLayer THEN [st |-> st, ret |-> 0]
    ELSE IF st.closed[t] THEN [st |-> st, ret |-> 0]
    ELSE LET r == transport_close_handler(st, t, fail)
         IN  [st  |-> [r.st EXCEPT !.closed[t] = (r.ret = 0)],
              ret |-> r.ret]

\* int esp_transport_close(esp_transport_handle_t t), the documented fix
esp_transport_close(st, t, fail) ==
    IF t = NoLayer THEN [st |-> st, ret |-> 0]
    ELSE IF st.closed[t] THEN [st |-> st, ret |-> 0]
    ELSE LET r == transport_close_handler(st, t, fail)
         IN  [st  |-> [r.st EXCEPT !.closed[t] = TRUE],
              ret |-> r.ret]

\* base_close -> esp_tls_conn_destroy -> free(tls); fail: the handler reports an error
base_close(st, fail) ==
    [st  |-> [st EXCEPT !.runs["ssl"] = @ + 1,
                        !.tls = "freed",
                        !.dfree = @ \/ (st.tls = "freed")],
     ret |-> IF fail THEN -1 ELSE 0]

\* ws_close that forgets the layer it wraps
ws_close_no_cascade(st, fail) ==
    [st |-> [st EXCEPT !.runs["ws"] = @ + 1], ret |-> 0]

\* ws_close -> esp_transport_close(ssl_transport)
ws_close(st, fail) ==
    esp_transport_close([st EXCEPT !.runs["ws"] = @ + 1], Parent("ws"), fail)

\* t->_close(t)
transport_close_handler(st, t, fail) ==
    IF t = "ws" THEN ws_close(st, fail) ELSE base_close(st, fail)

SetTStack(st) ==
    /\ t_closed' = st.closed
    /\ t_runs' = st.runs
    /\ tls' = st.tls
    /\ doubleFree' = st.dfree

\* the layers whose handler ran between two stack states
Ran(before, after) == {l \in Layers : after.runs[l] > before.runs[l]}

LogEntry(t, before, r) ==
    [layer |-> t, wasClosed |-> before.closed[t], ret |-> r.ret, ran |-> Ran(before, r.st)]

\* A call site (application, error path, another layer's owner) calls close(t).
CloseCall(t, fail) ==
    /\ Len(closeLog) < MaxCloseCalls
    /\ LET r == esp_transport_close(TStack, t, fail)
       IN  /\ SetTStack(r.st)
           /\ closeLog' = Append(closeLog, LogEntry(t, TStack, r))
           /\ closeFailed' = IF r.ret # 0 THEN closeFailed \cup {t} ELSE closeFailed
    /\ UNCHANGED <<connVars, handlerVars, codecVars, loopVars, termVars, ioVars>>

\* esp_websocket_client_abort_connection: closes the client's (ws) transport,
\* then its error path calls esp_transport_close again on the inner transport
esp_websocket_client_abort_connection(st, fail) ==
    LET r1 == esp_transport_close(st, "ws", fail)
        r2 == esp_transport_close(r1.st, "ssl", fail)
    IN  r2.st

(***************************************************************************)
(* FRAME CODEC: the header of a WebSocket frame on the wire.               *)
(* Payload lengths are kept below 2^31.                                    *)
(***************************************************************************)
MaxControlPayload == 125
NO_DATA_TIMEOUT_SEC == 10
SELECT_TIMEOUT_SEC == 1

\* continuation, text, binary, close, ping, pong
ValidOpcodes == {0, 1, 2, 8, 9, 10}
ControlOpcodes == {8, 9, 10}

NoHeader == [kind |-> "none"]
NeedMoreData == [kind |-> "NeedMoreData"]
ProtocolError == [kind |-> "ProtocolError"]

\* the k low bytes of n, most significant first
RECURSIVE BigEndian(_, _)
BigEndian(n, k) ==
    IF k = 0 THEN <<>> ELSE Append(BigEndian(n \div 256, k - 1), n % 256)

RECURSIVE FromBigEndian(_)
FromBigEndian(bs) ==
    IF bs = <<>> THEN 0
    ELSE FromBigEndian(SubSeq(bs, 1, Len(bs) - 1)) * 256 + bs[Len(bs)]

\* the minimal length encoding: 7 bits, 16 bits or 64 bits
LengthForm(len) ==
    IF len <= 125 THEN 7 ELSE IF len <= 65535 THEN 16 ELSE 64

\* the bytes of a header h = [fin, rsv, opcode, mask, len, form, key]
HeaderBytes(h) ==
    LET b0   == h.fin * 128 + h.rsv * 16 + h.opcode
        len7 == IF h.form = 7 THEN h.len ELSE IF h.form = 16 THEN 126 ELSE 127
        b1   == h.mask * 128 + len7
        ext  == IF h.form = 7 THEN <<>>
                ELSE IF h.form = 16 THEN BigEndian(h.len, 2)
                ELSE BigEndian(h.len, 8)
        key  == IF h.mask = 1 THEN h.key ELSE <<>>
    IN  <<b0, b1>> \o ext \o key

\* an encoder that knows the 7-bit and the 16-bit form only
encode_frame_no_64bit(opcode, fin, len, key) ==
    HeaderBytes([fin |-> fin, rsv |-> 0, opcode |-> opcode, mask |-> 1, len |-> len,
                 form |-> IF len <= 125 THEN 7 ELSE 16, key |-> key])

\* encode_frame(opcode, fin, payload): the mask bit is always set, the masking key is
\* per frame, the length encoding is the minimal one
encode_frame(opcode, fin, len, key) ==
    HeaderBytes([fin |-> fin, rsv |-> 0, opcode |-> opcode, mask |-> 1, len |-> len,
                 form |-> LengthForm(len), key |-> key])

\* parse_header(cursor): fromPeer tells whether the bytes arrived from the peer
parse_header(bs, fromPeer) ==
    IF Len(bs) < 2 THEN NeedMoreData
    ELSE
    LET fin    == bs[1] \div 128
        rsv    == (bs[1] \div 16) % 8
        opcode == bs[1] % 16
        mask   == bs[2] \div 128
        len7   == bs[2] % 128
        form   == IF len7 = 126 THEN 16 ELSE IF len7 = 127 THEN 64 ELSE 7
        extLen == IF form = 16 THEN 2 ELSE IF form = 64 THEN 8 ELSE 0
        need   == 2 + extLen + 4 * mask
    IN  IF Len(bs) < need THEN NeedMoreData
        ELSE
        LET len == IF extLen = 0 THEN len7 ELSE FromBigEndian(SubSeq(bs, 3, 2 + extLen))
        IN  IF rsv # 0 THEN ProtocolError
            ELSE IF mask = 1 /\ fromPeer THEN ProtocolError
            ELSE IF LengthForm(len) # form THEN ProtocolError
            ELSE IF opcode \in ControlOpcodes /\ len > MaxControlPayload THEN ProtocolError
            ELSE IF opcode \notin ValidOpcodes THEN ProtocolError
            ELSE [kind |-> "header", fin |-> fin, opcode |-> opcode, len |-> len,
                  mask |-> mask, consumed |-> need]

\* payload lengths in the 7-bit, the 16-bit and the 64-bit encoding range
SampleLengths == {0, 1, 125, 126, 127, 65535, 65536, 65537, 16777216}
MaskingKeys == {<<0, 0, 0, 0>>, <<18, 52, 86, 255>>}

\* the valid frame headers: a control frame carries at most 125 bytes
ValidHeaders ==
    {h \in [opcode : ValidOpcodes, fin : {0, 1}, len : SampleLengths, key : MaskingKeys] :
        h.opcode \in ControlOpcodes => h.len <= MaxControlPayload}

(***************************************************************************)
(* CONNECTION STATE MACHINE (Init, Connecting, Open, Closing, Closed,      *)
(* Error) around the transport stack.                                      *)
(***************************************************************************)
FailureKinds == {"send", "transport", "protocol"}

Count(seq, e) == Cardinality({i \in 1..Len(seq) : seq[i] = e})

\* an event delivered ahead of the events already queued
EmitEvent_ahead(log, e) == <<e>> \o log

\* events are delivered to the consumer in the order they were raised
EmitEvent(log, e) == Append(log, e)

\* the first close frame received or sent on the connection
MarkClose == closedAt' = IF closedAt < 0 THEN Len(connEvents) ELSE closedAt

NoFrame == [opcode |-> -1]
DataOpcodes == {0, 1, 2}

PeerFrame(op, fin, rsv, mask, len, form, code) ==
    [opcode |-> op, fin |-> fin, rsv |-> rsv, mask |-> mask, len |-> len, form |-> form,
     key |-> <<1, 2, 3, 4>>, code |-> code]

\* frames a server may send
WellFormedFrames ==
    {PeerFrame(1, 1, 0, 0, 126, 16, 0), PeerFrame(1, 0, 0, 0, 5, 7, 0),
     PeerFrame(0, 1, 0, 0, 5, 7, 0), PeerFrame(2, 1, 0, 0, 65536, 64, 0),
     PeerFrame(9, 1, 0, 0, 125, 7, 0), PeerFrame(10, 1, 0, 0, 0, 7, 0),
     PeerFrame(8, 1, 0, 0, 2, 7, 1000), PeerFrame(8, 1, 0, 0, 2, 7, 1001)}

\* frames no server may send
BadFrames ==
    {PeerFrame(3, 1, 0, 0, 5, 7, 0), PeerFrame(7, 1, 0, 0, 5, 7, 0),
     PeerFrame(11, 1, 0, 0, 5, 7, 0), PeerFrame(15, 1, 0, 0, 5, 7, 0),
     PeerFrame(1, 1, 4, 0, 5, 7, 0), PeerFrame(2, 1, 1, 0, 5, 7, 0),
     PeerFrame(9, 1, 0, 0, 126, 16, 0), PeerFrame(8, 1, 0, 0, 126, 16, 1000),
     PeerFrame(1, 1, 0, 1, 5, 7, 0), PeerFrame(1, 1, 0, 0, 5, 16, 0)}

PeerFrames == WellFormedFrames \cup BadFrames

\* the protocol violations: reserved opcode, reserved bits, oversized control frame,
\* masked frame from the server
ViolatesProtocol(h) ==
    \/ h.opcode \in (3..7) \cup (11..15)
    \/ h.rsv # 0
    \/ (h.opcode \in ControlOpcodes /\ h.len > MaxControlPayload)
    \/ h.mask = 1

\* a state machine that goes on processing data frames during the close handshake
ProcessesData_while_closing(state) == state \in {"Open", "Closing"}

\* data frames are processed while the connection is open
ProcessesData(state) == state = "Open"

\* the close handshake is over: a close frame of the peer has been echoed
MayTearDown(rx, out) ==
    rx # 0 => \E i \in 1..Len(out) : out[i] = [op |-> "close", code |-> rx]

\* Init -> Connecting (on start)
Start ==
    /\ connState = "Init"
    /\ connState' = "Connecting"
    /\ UNCHANGED <<connEvents, wireOut, detections, closedAt, transportVars, rxVars, handlerVars,
                   codecVars, loopVars, termVars, ioVars, restarts>>

\* Connecting -> Open (on successful handshake)
HandshakeOk ==
    /\ connState = "Connecting"
    /\ connState' = "Open"
    /\ connEvents' = EmitEvent(connEvents, "Connected")
    /\ UNCHANGED <<wireOut, detections, closedAt, transportVars, rxVars, handlerVars, codecVars, loopVars, termVars, ioVars, restarts>>

\* The first call site that detects a fatal failure: the state machine leaves Open,
\* a protocol error issues a close frame with code 1002, the transport is closed
\* and the error event is emitted.
FatalPath(kind, fail) ==
    /\ connState = "Open"
    /\ detections = 0
    /\ detections' = 1
    /\ connState' = IF kind = "protocol" THEN "Closing" ELSE "Error"
    /\ wireOut' = IF kind = "protocol" THEN Append(wireOut, [op |-> "close", code |-> 1002])
                  ELSE wireOut
    /\ SetTStack(esp_websocket_client_abort_connection(TStack, fail))
    /\ connEvents' = EmitEvent(connEvents, "Error")
    /\ IF kind = "protocol" THEN MarkClose ELSE UNCHANGED closedAt
    /\ UNCHANGED <<closeLog, closeFailed, closeRx, rxLate, handlerVars, codecVars, loopVars, termVars, ioVars, restarts>>

\* a call site other than the frame reader detects the failure
DetectFailure(kind, fail) ==
    /\ FatalPath(kind, fail)
    /\ UNCHANGED <<lastRx, rxCount, violation>>

\* The peer sends a frame. While the connection is open the frame reader parses the
\* header: a protocol error takes the fatal path, a close frame starts the close
\* handshake, a ping is answered with a pong, a data frame is delivered. Once a close
\* frame has been received or sent the frame is read and dropped.
ReceiveFrame(h, fail) ==
    /\ connState \in {"Open", "Closing"}
    /\ ~t_closed["ws"]
    /\ rxCount < MaxFrames
    /\ rxCount' = rxCount + 1
    /\ lastRx' = h
    /\ LET r == parse_header(HeaderBytes(h), TRUE)
           isData == r.kind = "header" /\ r.opcode \in DataOpcodes
       IN  IF connState = "Open" /\ r = ProtocolError
           THEN /\ FatalPath("protocol", fail)
                /\ violation' = (violation \/ ViolatesProtocol(h))
           ELSE /\ violation' = (violation \/ (connState = "Open" /\ ViolatesProtocol(h)))
                /\ rxLate' = (rxLate \/ (connState = "Closing" /\ isData))
                /\ connEvents' = IF isData /\ ProcessesData(connState)
                                 THEN EmitEvent(connEvents, "Data") ELSE connEvents
                /\ wireOut' = IF connState = "Open" /\ r.kind = "header" /\ r.opcode = 9
                              THEN Append(wireOut, [op |-> "pong", code |-> 0]) ELSE wireOut
                /\ IF connState = "Open" /\ r.kind = "header" /\ r.opcode = 8
                   THEN /\ connState' = "Closing"
                        /\ closeRx' = h.code
                        /\ MarkClose
                   ELSE UNCHANGED <<connState, closeRx, closedAt>>
                /\ UNCHANGED <<detections, transportVars, handlerVars, codecVars, loopVars, termVars, ioVars, restarts>>

\* the echo of the peer's close frame, with the status code received
EchoClose ==
    /\ connState = "Closing"
    /\ closeRx # 0
    /\ ~t_closed["ws"]
    /\ ~MayTearDown(closeRx, wireOut)
    /\ wireOut' = Append(wireOut, [op |-> "close", code |-> closeRx])
    /\ UNCHANGED <<connState, connEvents, detections, closedAt, rxVars, transportVars,
                   handlerVars, codecVars, loopVars, termVars, ioVars, restarts>>

\* Another call site detects the same failure: it requests the teardown again.
RedundantDetect(fail) ==
    /\ detections >= 1
    /\ detections < MaxDetections
    /\ detections' = detections + 1
    /\ SetTStack(esp_websocket_client_abort_connection(TStack, fail))
    /\ UNCHANGED <<connState, connEvents, wireOut, closeLog, closeFailed, closedAt, rxVars,
                   handlerVars, codecVars, loopVars, termVars, ioVars, restarts>>

\* Error -> Closed, Closing -> Closed after a protocol error
FinishTeardown ==
    /\ connState \in {"Error", "Closing"}
    /\ detections >= 1
    /\ connState' = "Closed"
    /\ connEvents' = EmitEvent(connEvents, "Disconnected")
    /\ UNCHANGED <<wireOut, detections, closedAt, transportVars, rxVars, handlerVars, codecVars, loopVars, termVars, ioVars, restarts>>

\* Open -> Closing on a local close (stop)
Stop ==
    /\ connState = "Open"
    /\ detections = 0
    /\ connState' = "Closing"
    /\ wireOut' = Append(wireOut, [op |-> "close", code |-> 1000])
    /\ MarkClose
    /\ UNCHANGED <<connEvents, detections, transportVars, rxVars, handlerVars, codecVars, loopVars, termVars, ioVars, restarts>>

\* Closing -> Closed when the close handshake is over: the transport is closed
CloseComplete(fail) ==
    /\ connState = "Closing"
    /\ detections = 0
    /\ MayTearDown(closeRx, wireOut)
    /\ connState' = "Closed"
    /\ SetTStack(esp_transport_close(TStack, "ws", fail).st)
    /\ connEvents' = EmitEvent(connEvents, "Disconnected")
    /\ UNCHANGED <<wireOut, detections, closeLog, closeFailed, closedAt, rxVars, handlerVars,
                   codecVars, loopVars, termVars, ioVars, restarts>>

\* Closed -> Connecting: the client is started again on the same handle (auto-reconnect
\* or an explicit start after stop). open() establishes a new TLS session on the same
\* transport list; the state of the connection attempt starts afresh. Nothing clears
\* the _closed flag esp_transport_close has set.
Restart ==
    /\ connState = "Closed"
    /\ restarts < MaxRestarts
    /\ restarts' = restarts + 1
    /\ connState' = "Connecting"
    /\ tls' = "held"
    /\ detections' = 0
    /\ wireOut' = <<>>
    /\ closeRx' = 0
    /\ lastRx' = NoFrame
    /\ rxCount' = 0
    /\ closedAt' = -1
    /\ UNCHANGED <<connEvents, violation, rxLate, t_closed, t_runs, doubleFree, closeLog,
                   closeFailed, handlerVars, codecVars, loopVars, termVars, ioVars>>

(***************************************************************************)
(* ECHO HANDLER AND REASSEMBLY ACCUMULATOR (autobahn_testee.c)             *)
(***************************************************************************)
BUFFER_SIZE == 16384
MAX_FRAGMENTED_PAYLOAD == 65537

Garbage == 0
NoMsg == [src |-> "none"]
\* the byte values a chunk may be filled with: two, to tell chunks apart
Data == {1, 2}

ESP_OK == "ESP_OK"
ESP_ERR_INVALID_SIZE == "ESP_ERR_INVALID_SIZE"
ESP_ERR_NO_MEM == "ESP_ERR_NO_MEM"

\* Byte positions at which chunks begin and end, and lengths a frame may declare.
Marks == {k * BUFFER_SIZE : k \in 0..MaxChunks}
             \cup {MAX_FRAGMENTED_PAYLOAD, MAX_FRAGMENTED_PAYLOAD + 1}

\* The buffer is kept as cells: the cell at m holds the bytes from m up to the next mark.
CellStarts == {m \in Marks : m < MAX_FRAGMENTED_PAYLOAD}
CellsIn(from, to) == {m \in Marks : from <= m /\ m < to}

\* the bytes of a chunk: data_len bytes of value d
FrameBytes(len, d) == [m \in CellsIn(0, len) |-> d]

\* static ws_accumulator_t s_accumulator = {0}
ZeroAccumulator ==
    [buffer |-> "NULL", capacity |-> 0, expected_len |-> 0, received |-> 0,
     opcode |-> 0, active |-> FALSE]

\* a reset that forgets to clear the active flag
ws_accumulator_reset_keeps_active(a) ==
    [a EXCEPT !.expected_len = 0, !.received = 0, !.opcode = 0]

\* static void ws_accumulator_reset(void)
ws_accumulator_reset(a) ==
    [a EXCEPT !.expected_len = 0, !.received = 0, !.opcode = 0, !.active = FALSE]

\* static esp_err_t ws_accumulator_prepare(size_t total_len, uint8_t opcode)
ws_accumulator_prepare(a, buf, total_len, opcode, mallocOk) ==
    IF total_len = 0 THEN [acc |-> a, buf |-> buf, err |-> ESP_OK]
    ELSE IF total_len > MAX_FRAGMENTED_PAYLOAD
         THEN [acc |-> a, buf |-> buf, err |-> ESP_ERR_INVALID_SIZE]
    ELSE IF buf = "NULL" /\ ~mallocOk
         THEN [acc |-> a, buf |-> buf, err |-> ESP_ERR_NO_MEM]
    ELSE [acc |-> [buffer |-> "buf", capacity |-> MAX_FRAGMENTED_PAYLOAD,
                   expected_len |-> total_len, received |-> 0,
                   opcode |-> opcode, active |-> TRUE],
          buf |-> "buf", err |-> ESP_OK]

Skip == -1

\* a handler that answers a ping itself with a pong frame
EchoOpcode_answers_ping(op_code) ==
    IF op_code = 9 THEN 10
    ELSE IF op_code >= 8 THEN Skip
    ELSE IF op_code \in {0, 1, 2} THEN op_code
    ELSE Skip

\* a handler that echoes a frame with an unsupported opcode as it came
EchoOpcode_echoes_unsupported(op_code) ==
    IF op_code >= 8 THEN Skip ELSE op_code

\* the skip of control frames and the choice of the opcode to echo
EchoOpcode(op_code) ==
    IF op_code >= 8 THEN Skip
    ELSE IF op_code = 1 THEN 1
    ELSE IF op_code = 2 THEN 2
    ELSE IF op_code = 0 THEN 0
    ELSE Skip

\* size_t total_len = data->payload_len ? data->payload_len : data->data_len
TotalLen(ev) == IF ev.payload_len # 0 THEN ev.payload_len ELSE ev.data_len

\* a test that looks at the offset only
IsFragmented_offset_only(ev) == ev.payload_offset > 0

\* bool fragmented = (payload_len > 0 && payload_len > data_len) || (payload_offset > 0)
IsFragmented(ev) ==
    (ev.payload_len > 0 /\ ev.payload_len > ev.data_len) \/ ev.payload_offset > 0

\* if (data->payload_offset == 0 || !s_accumulator.active)
StartsAccumulation(ev, a) == ev.payload_offset = 0 \/ ~a.active

\* if (offset + data->data_len > s_accumulator.capacity)
ExceedsCapacity(a, end) == end > a.capacity

\* the check against the expected length left out
ExceedsExpected_never(a, end) == FALSE

\* if (offset + data->data_len > s_accumulator.expected_len)
ExceedsExpected(a, end) == end > a.expected_len

\* memcpy(s_accumulator.buffer + offset, data->data_ptr, data->data_len)
StoreChunk(m, offset, len, d) ==
    [c \in CellStarts |-> IF c \in CellsIn(offset, offset + len) THEN d ELSE m[c]]

\* s_accumulator.received = offset + data->data_len
ReceivedAfter(a, offset, len) == offset + len

\* the completed message: payload = buffer, len = expected_len, send_opcode = opcode
CompletedMessage(a, m) ==
    [opcode |-> a.opcode, len |-> a.expected_len,
     bytes |-> [c \in CellsIn(0, a.expected_len) |-> m[c]], src |-> "accumulator"]

\* the fragmented branch of WEBSOCKET_EVENT_DATA, from the buffer check to completion
Accumulate(cur, ev, send_opcode, total_len, mallocOk) ==
    IF cur.buf = "NULL" /\ ~mallocOk THEN cur
    ELSE
    LET buf1 == "buf"
        a0   == cur.acc
        prep == IF StartsAccumulation(ev, a0)
                THEN ws_accumulator_prepare(a0, buf1, total_len, send_opcode, mallocOk)
                ELSE IF total_len # a0.expected_len
                THEN ws_accumulator_prepare(ws_accumulator_reset(a0), buf1, total_len,
                                            send_opcode, mallocOk)
                ELSE [acc |-> a0, buf |-> buf1, err |-> ESP_OK]
        a1   == prep.acc
        end  == ev.payload_offset + ev.data_len
    IN  IF prep.err # ESP_OK THEN [cur EXCEPT !.acc = a1, !.buf = buf1, !.err = prep.err]
        ELSE IF ~a1.active \/ a1.buffer = "NULL"
             THEN [cur EXCEPT !.acc = ws_accumulator_reset(a1), !.buf = buf1]
        ELSE IF ExceedsCapacity(a1, end)
             THEN [cur EXCEPT !.acc = ws_accumulator_reset(a1), !.buf = buf1]
        ELSE IF ExceedsExpected(a1, end)
             THEN [cur EXCEPT !.acc = ws_accumulator_reset(a1), !.buf = buf1]
        ELSE
        LET m2 == StoreChunk(cur.mem, ev.payload_offset, ev.data_len, ev.d)
            a2 == [a1 EXCEPT !.received = ReceivedAfter(a1, ev.payload_offset, ev.data_len)]
        IN  IF a2.received < a2.expected_len
            THEN [cur EXCEPT !.acc = a2, !.buf = buf1, !.mem = m2]
            ELSE [acc |-> [a2 EXCEPT !.active = FALSE], buf |-> buf1, mem |-> m2,
                  echo |-> CompletedMessage(a2, m2), err |-> ESP_OK]

\* case WEBSOCKET_EVENT_DATA, up to the connection check before the echo
DataHandler(ev, mallocOk) ==
    LET cur == [acc |-> s_accumulator, buf |-> s_accum_buffer, mem |-> mem, echo |-> NoMsg, err |-> ESP_OK]
        send_opcode == EchoOpcode(ev.op_code)
    IN  IF ~test_running \/ ~connected
        THEN [cur EXCEPT !.acc = ws_accumulator_reset(@)]
        ELSE IF send_opcode = Skip THEN cur
        ELSE IF IsFragmented(ev) /\ TotalLen(ev) > 0
             THEN Accumulate(cur, ev, send_opcode, TotalLen(ev), mallocOk)
             ELSE [cur EXCEPT !.echo = [opcode |-> send_opcode, len |-> ev.data_len,
                                        bytes |-> FrameBytes(ev.data_len, ev.d),
                                        src |-> "frame"]]

\* a malloc that does not look at the pointer it overwrites
MallocIfNull_always(buf, ok) == IF ok THEN 1 ELSE 0

\* if (!s_accum_buffer) s_accum_buffer = malloc(MAX_FRAGMENTED_PAYLOAD): blocks obtained
MallocIfNull(buf, ok) == IF buf = "NULL" /\ ok THEN 1 ELSE 0

\* blocks the handler obtains for ev: the malloc of lines 231-237 is reached in the
\* fragmented branch only; the one of ws_accumulator_prepare (line 116) comes after it
\* and finds the pointer set
HandlerMallocs(ev, mallocOk) ==
    IF /\ test_running /\ connected
       /\ EchoOpcode(ev.op_code) # Skip
       /\ IsFragmented(ev) /\ TotalLen(ev) > 0
    THEN MallocIfNull(s_accum_buffer, mallocOk)
    ELSE 0

\* the call that left r reached the memcpy of line 287
CopiesChunk(ev, r) ==
    /\ test_running /\ connected
    /\ EchoOpcode(ev.op_code) # Skip
    /\ IsFragmented(ev) /\ TotalLen(ev) > 0
    /\ r.err = ESP_OK
    /\ \/ r.echo # NoMsg
       \/ /\ r.acc.active
          /\ r.acc.expected_len = TotalLen(ev)
          /\ r.acc.received = ev.payload_offset + ev.data_len

\* the heap once app_main has tried to allocate the buffer (lines 644-655)
HeapAt(buf) == [live |-> IF buf = "NULL" THEN 0 ELSE 1, frees |-> 0, badCopy |-> FALSE]

(***************************************************************************)
(* History of the deliveries, kept beside the program state to state the   *)
(* claims about whole messages.                                            *)
(***************************************************************************)
GdOff == [on |-> FALSE]
DoneOff == [on |-> FALSE]

\* a chunk of a chunked delivery: it declares a total longer than itself, or an offset
IsChunk(ev) ==
    /\ ev.op_code \in {0, 1, 2}
    /\ ev.payload_len > 0
    /\ (ev.payload_len > ev.data_len \/ ev.payload_offset > 0)

\* The delivery in progress after ev: a chunk at offset 0 begins one, the chunk at the
\* next offset with the same total continues it, any other chunk ends it.
GdAfter(ev) ==
    LET end == ev.payload_offset + ev.data_len
    IN  IF ~(test_running /\ connected) THEN GdOff
        ELSE IF ~IsChunk(ev) THEN gd
        ELSE IF ev.payload_offset = 0
             THEN IF ev.payload_len <= MAX_FRAGMENTED_PAYLOAD /\ end <= ev.payload_len
                  THEN [on |-> TRUE, done |-> FALSE, total |-> ev.payload_len, next |-> end,
                        bytes |-> FrameBytes(end, ev.d), op |-> ev.op_code,
                        last |-> <<0, ev.data_len, ev.d>>]
                  ELSE GdOff
        ELSE IF gd.on /\ ev.payload_offset = gd.next /\ ev.payload_len = gd.total
                      /\ end <= gd.total
             THEN [gd EXCEPT !.next = end,
                             !.done = (end = gd.total),
                             !.bytes = [m \in CellsIn(0, end) |->
                                           IF m < gd.next THEN gd.bytes[m] ELSE ev.d],
                             !.last = <<ev.payload_offset, ev.data_len, ev.d>>]
             ELSE GdOff

\* ev delivers again the chunk that completed the message handed on last
IsRedelivery(ev) ==
    /\ doneMsg.on
    /\ IsChunk(ev)
    /\ ev.payload_len = doneMsg.total
    /\ <<ev.payload_offset, ev.data_len, ev.d>> = doneMsg.last

(***************************************************************************)
(* Events of the consumer's handler.                                       *)
(***************************************************************************)
\* frames the peer may send as data, as the client reports them
\* A DATA event carries the bytes of one read, at most one receive buffer
\* (data_len <= BUFFER_SIZE); only an empty frame is reported with no bytes.
ChunkSpans ==
    {sp \in Marks \X Marks :
        \/ sp = <<0, 0>>
        \/ sp[1] < sp[2] /\ sp[2] - sp[1] <= BUFFER_SIZE}

\* data frames as the client reports them; data->fin is drawn in DataEvent
DataEvents ==
    {ev \in {[op_code |-> op, data_len |-> sp[2] - sp[1], payload_len |-> total,
              payload_offset |-> sp[1], d |-> d] :
                 op \in {0, 1, 2}, sp \in ChunkSpans, total \in Marks, d \in Data} :
        ev.data_len = 0 => ev.payload_len = 0}

\* control frames and frames with an unassigned opcode; a ping with every payload
OtherEvents ==
    {[op_code |-> op, data_len |-> len, payload_len |-> len, payload_offset |-> 0,
      d |-> d] :
        op \in 3..15, len \in {0, MaxControlPayload}, d \in Data}

\* The client answers a ping read while the connection is open with one pong that
\* carries the ping's payload, before the event reaches the consumer.
ClientAutoPong(ev) ==
    IF connected /\ ev.op_code = 9 THEN <<ev.d>> ELSE <<>>

\* case WEBSOCKET_EVENT_CONNECTED
EventConnected ==
    /\ UNCHANGED <<transportVars, connVars, codecVars, loopVars, termVars, ioVars, stepVars, runVars, heap>>
    /\ pc = "idle"
    /\ test_running' = TRUE
    /\ rxPing' = 0
    /\ txPong' = <<>>
    /\ lastErr' = ESP_OK
    /\ lastEvent' = "CONNECTED"
    /\ UNCHANGED sendVars
    /\ discarded' = FALSE
    /\ UNCHANGED <<s_accumulator, s_accum_buffer, mem, connected, pc, pending, evFin,
                   attempt, gd, doneMsg, dupHandoff>>

\* case WEBSOCKET_EVENT_DISCONNECTED, WEBSOCKET_EVENT_ERROR, WEBSOCKET_EVENT_FINISH
EventEnd(e) ==
    /\ UNCHANGED <<transportVars, connVars, codecVars, loopVars, termVars, ioVars, stepVars, heap>>
    /\ pc = "idle"
    /\ semGiven' = IF test_done_sem # "NULL" THEN TRUE ELSE semGiven
    /\ UNCHANGED <<runPc, test_done_sem, caseNum, runRet, runHist>>
    /\ test_running' = FALSE
    /\ s_accumulator' = ws_accumulator_reset(s_accumulator)
    /\ rxPing' = 0
    /\ txPong' = <<>>
    /\ lastErr' = ESP_OK
    /\ gd' = GdOff
    /\ doneMsg' = DoneOff
    /\ lastEvent' = e
    /\ UNCHANGED sendVars
    /\ discarded' = (discarded \/ (s_accumulator.active /\ s_accumulator.received > 0))
    /\ UNCHANGED <<s_accum_buffer, mem, connected, pc, pending, evFin, attempt, dupHandoff>>

\* the client reaches the connected state
ConnectionUp ==
    /\ UNCHANGED <<transportVars, connVars, codecVars, loopVars, termVars, ioVars, stepVars, runVars, heap>>
    /\ ~connected
    /\ pc = "idle"
    /\ connected' = TRUE
    /\ UNCHANGED <<s_accumulator, s_accum_buffer, mem, test_running, pc, pending, evFin,
                   attempt, lastErr, rxPing, txPong, gd, doneMsg, dupHandoff, lastEvent, discarded, sendVars>>

\* the client leaves the connected state (stop, abort, peer close), at any moment
ConnectionLost ==
    /\ UNCHANGED <<transportVars, connVars, codecVars, loopVars, termVars, ioVars, stepVars, runVars, heap>>
    /\ connected
    /\ connected' = FALSE
    /\ gd' = GdOff
    /\ doneMsg' = DoneOff
    /\ UNCHANGED <<s_accumulator, s_accum_buffer, mem, test_running, pc, pending, evFin,
                   attempt, lastErr, rxPing, txPong, dupHandoff, lastEvent, discarded, sendVars>>

\* what a DATA event carries: a data frame, a control frame (close, ping, pong),
\* or a frame with an opcode the handler does not support
EventKind(ev) ==
    IF ev.op_code >= 8 THEN "DATA_CONTROL"
    ELSE IF ev.op_code \in {0, 1, 2} THEN "DATA"
    ELSE "DATA_UNSUPPORTED"

NoEv == [op_code |-> -1]
NoPre == [on |-> FALSE]

\* case WEBSOCKET_EVENT_DATA, lines 170-302
DataEventBody(ev) ==
    /\ UNCHANGED <<transportVars, connVars, codecVars, loopVars, termVars, ioVars, runVars>>
    /\ pc = "idle"
    /\ \E mallocOk \in (IF s_accum_buffer = "NULL" THEN BOOLEAN ELSE {TRUE}) :
       \E r \in {DataHandler(ev, mallocOk)} :
       LET handsOn == r.echo # NoMsg
       IN  /\ s_accumulator' = r.acc
           /\ s_accum_buffer' = r.buf
           /\ heap' = [heap EXCEPT !.live = @ + HandlerMallocs(ev, mallocOk),
                                   !.badCopy = @ \/ (CopiesChunk(ev, r) /\
                                        (r.acc.buffer = "NULL"
                                           \/ heap.live + HandlerMallocs(ev, mallocOk) = 0))]
           /\ mem' = r.mem
           /\ lastErr' = r.err
           /\ pending' = r.echo
           /\ pc' = IF handsOn THEN "echo" ELSE "idle"
           /\ \E fin \in (IF handsOn THEN {0, 1} ELSE {1}) : evFin' = fin
           /\ attempt' = 0
           /\ rxPing' = IF connected /\ ev.op_code = 9 THEN ev.d ELSE 0
           /\ txPong' = ClientAutoPong(ev)
           /\ gd' = GdAfter(ev)
           /\ dupHandoff' = (IsRedelivery(ev) /\ handsOn /\ r.echo.src = "accumulator"
                                /\ r.echo.len = doneMsg.total
                                /\ r.echo.bytes = doneMsg.bytes)
           /\ doneMsg' = IF ev.op_code \in {0, 1, 2} THEN DoneOff ELSE doneMsg
    /\ lastEvent' = EventKind(ev)
    /\ UNCHANGED <<discarded, sendVars>>
    /\ UNCHANGED <<test_running, connected>>

DataEvent(ev) ==
    /\ DataEventBody(ev)
    /\ UNCHANGED stepVars

\* the same call, with the event and what the call found kept beside the state
DataStep(ev) ==
    /\ hEv = NoEv
    /\ DataEventBody(ev)
    /\ hEv' = ev
    /\ hPre' = [on |-> TRUE, acc |-> s_accumulator, mem |-> mem, buf |-> s_accum_buffer,
                running |-> test_running, connected |-> connected]

\* the handler has returned and the next event is awaited: the history is dropped
StepReturn ==
    /\ hEv # NoEv
    /\ pc = "idle"
    /\ hEv' = NoEv
    /\ hPre' = NoPre
    /\ UNCHANGED <<transportVars, connVars, codecVars, loopVars, termVars, ioVars, s_accumulator, s_accum_buffer, mem,
                   test_running, connected, pc, pending, evFin, attempt, lastErr, rxPing,
                   txPong, gd, doneMsg, dupHandoff, lastEvent, discarded, sendVars, runVars,
                   heap>>

\* if (!esp_websocket_client_is_connected(client)) before the echo, lines 304-314
EchoCheck ==
    /\ UNCHANGED <<transportVars, connVars, codecVars, loopVars, termVars, ioVars, stepVars, runVars, heap>>
    /\ pc = "echo"
    /\ IF connected
       THEN /\ pc' = "send"
            /\ doneMsg' = IF gd.on /\ gd.done
                          THEN [on |-> TRUE, total |-> gd.total, bytes |-> gd.bytes,
                                last |-> gd.last]
                          ELSE doneMsg
            /\ UNCHANGED <<s_accumulator, pending, evFin, gd, dupHandoff>>
       ELSE /\ pc' = "idle"
            /\ s_accumulator' = ws_accumulator_reset(s_accumulator)
            /\ pending' = NoMsg
            /\ evFin' = 1
            /\ gd' = GdOff
            /\ dupHandoff' = FALSE
            /\ UNCHANGED doneMsg
    /\ attempt' = 0
    /\ rxPing' = 0
    /\ txPong' = <<>>
    /\ UNCHANGED <<s_accum_buffer, mem, test_running, connected, lastErr, lastEvent,
                   discarded, sendVars>>

HandlerReturns ==
    /\ UNCHANGED <<transportVars, connVars, codecVars, loopVars, termVars, ioVars, stepVars, runVars, heap>>
    /\ pc' = "idle"
    /\ pending' = NoMsg
    /\ evFin' = 1
    /\ attempt' = 0
    /\ sent' = -1
    /\ waited' = <<>>
    /\ tick' = 0
    /\ txFrames' = <<>>
    /\ gd' = GdOff
    /\ dupHandoff' = FALSE
    /\ UNCHANGED <<s_accumulator, s_accum_buffer, mem, test_running, connected, lastErr,
                   rxPing, txPong, doneMsg, lastEvent, discarded>>

\* const TickType_t backoff[] = {1, 1, 1, 2, 4, 8}
backoff == <<1, 1, 1, 2, 4, 8>>
BackoffLen == 6
\* vTaskDelay(32) once the backoff table is used up
SlowRetryTicks == 32

\* the table's last entry for ever, without the fixed slow interval
RetryDelay_last_entry(att) ==
    IF att < BackoffLen THEN backoff[att + 1] ELSE backoff[BackoffLen]

\* the delay after a failed pass: backoff[attempt++] while attempt < 6, 32 ticks after
RetryDelay(att) ==
    IF att < BackoffLen THEN backoff[att + 1] ELSE SlowRetryTicks

\* attempt after a failed pass
NextAttempt(att) ==
    IF att < BackoffLen THEN att + 1 ELSE att

RECURSIVE SendSegments_fin_everywhere(_, _)
RECURSIVE SendSegments(_, _)

\* a send path that sets fin on every segment
SendSegments_fin_everywhere(opcode, len) ==
    IF len <= BUFFER_SIZE THEN <<[opcode |-> opcode, fin |-> 1, len |-> len]>>
    ELSE <<[opcode |-> opcode, fin |-> 1, len |-> BUFFER_SIZE]>>
             \o SendSegments_fin_everywhere(0, len - BUFFER_SIZE)

\* esp_websocket_client_send_with_opcode: the payload goes out in segments of at most
\* one transport buffer (cfg.buffer_size = BUFFER_SIZE); the first segment carries the
\* caller's opcode, the following ones continuation, the last one fin
SendSegments(opcode, len) ==
    IF len <= BUFFER_SIZE THEN <<[opcode |-> opcode, fin |-> 1, len |-> len]>>
    ELSE <<[opcode |-> opcode, fin |-> 0, len |-> BUFFER_SIZE]>>
             \o SendSegments(0, len - BUFFER_SIZE)

\* what a pass of the loop leaves alone
LoopUnchanged ==
    UNCHANGED <<transportVars, connVars, codecVars, loopVars, termVars, ioVars, stepVars, runVars, heap, s_accumulator, s_accum_buffer,
                mem, test_running,
                connected, pending, evFin, lastErr, rxPing, txPong, gd, doneMsg, dupHandoff,
                lastEvent, discarded>>

\* one pass of the retry loop in which esp_websocket_client_send_with_opcode succeeds:
\* it returns the number of bytes written and the loop is left
SendOk ==
    /\ pc = "send"
    /\ connected
    /\ sent' = pending.len
    /\ txFrames' = SendSegments(pending.opcode, pending.len)
    /\ pc' = "sent"
    /\ tick' = 0
    /\ UNCHANGED <<attempt, waited>>
    /\ LoopUnchanged

\* one pass of the retry loop in which the send fails: back off and try again
SendRetry ==
    /\ pc = "send"
    /\ connected
    /\ attempt' = NextAttempt(attempt)
    /\ waited' = IF Len(waited) < MaxRetries THEN Append(waited, RetryDelay(attempt))
                 ELSE waited
    /\ tick' = 1 - tick
    /\ UNCHANGED <<pc, sent, txFrames>>
    /\ LoopUnchanged

\* the loop condition fails because the client is no longer connected: sent stays -1
SendGiveUp ==
    /\ pc = "send"
    /\ ~connected
    /\ pc' = "sent"
    /\ tick' = 0
    /\ UNCHANGED <<attempt, sent, waited, txFrames>>
    /\ LoopUnchanged

\* after the loop: the echo is reported as a success or as a failure, lines 382-391
EchoDone ==
    /\ pc = "sent"
    /\ HandlerReturns

NoRun == [clients |-> 0, destroys |-> 0, sems |-> 0, deletes |-> 0, stops |-> 0,
          badStop |-> FALSE]

\* static SemaphoreHandle_t test_done_sem = NULL; run_test_case not yet called
InitRun ==
    /\ runPc = "idle"
    /\ test_done_sem = "NULL"
    /\ semGiven = FALSE
    /\ caseNum = 0
    /\ runRet = "none"
    /\ runHist = NoRun

InitHandler ==
    /\ InitRun
    /\ s_accumulator = ZeroAccumulator
    /\ s_accum_buffer \in {"NULL", "buf"}
    /\ heap = HeapAt(s_accum_buffer)
    /\ mem = [c \in CellStarts |-> Garbage]
    /\ test_running = FALSE
    /\ connected = FALSE
    /\ pc = "idle"
    /\ pending = NoMsg
    /\ evFin = 1
    /\ attempt = 0
    /\ lastErr = ESP_OK
    /\ rxPing = 0
    /\ txPong = <<>>
    /\ gd = GdOff
    /\ doneMsg = DoneOff
    /\ dupHandoff = FALSE
    /\ lastEvent = "NONE"
    /\ discarded = FALSE
    /\ sent = -1
    /\ waited = <<>>
    /\ tick = 0
    /\ txFrames = <<>>
    /\ hEv = NoEv
    /\ hPre = NoPre

InitTransport ==
    /\ t_closed = [l \in Layers |-> FALSE]
    /\ t_runs = [l \in Layers |-> 0]
    /\ tls = "held"
    /\ doubleFree = FALSE
    /\ closeLog = <<>>
    /\ closeFailed = {}

InitConn ==
    /\ connState = "Init"
    /\ connEvents = <<>>
    /\ wireOut = <<>>
    /\ detections = 0
    /\ closeRx = 0
    /\ lastRx = NoFrame
    /\ rxCount = 0
    /\ violation = FALSE
    /\ closedAt = -1
    /\ rxLate = FALSE
    /\ restarts = 0

CodecUnchanged == UNCHANGED <<transportVars, connVars, handlerVars, loopVars, termVars, ioVars>>

\* encode_frame applied to the header drawn
CodecEncode ==
    /\ codecBytes = <<>>
    /\ codecBytes' = encode_frame(codecIn.opcode, codecIn.fin, codecIn.len, codecIn.key)
    /\ UNCHANGED <<codecIn, codecOut>>
    /\ CodecUnchanged

\* parse_header applied to the bytes this client produced
CodecParse ==
    /\ codecBytes # <<>>
    /\ codecOut = NoHeader
    /\ codecOut' = parse_header(codecBytes, FALSE)
    /\ UNCHANGED <<codecIn, codecBytes>>
    /\ CodecUnchanged

InitCodec ==
    /\ codecIn = [opcode |-> 1, fin |-> 1, len |-> 0, key |-> <<0, 0, 0, 0>>]
    /\ codecBytes = <<>>
    /\ codecOut = NoHeader

vars == <<transportVars, connVars, handlerVars, codecVars, loopVars, termVars, ioVars>>

Init == InitTransport /\ InitConn /\ InitHandler /\ InitCodec /\ InitLoop /\ InitTerm

\* the codec applied to every valid header
InitCodecAny ==
    /\ InitTransport /\ InitConn /\ InitHandler /\ InitLoop /\ InitTerm
    /\ codecIn \in ValidHeaders
    /\ codecBytes = <<>>
    /\ codecOut = NoHeader

NextCodec ==
    \/ CodecEncode
    \/ CodecParse

SpecCodec == InitCodecAny /\ [][NextCodec]_vars

NextTransport ==
    \/ \E t \in Layers, fail \in BOOLEAN : CloseCall(t, fail)
    \/ Start
    \/ HandshakeOk
    \/ \E kind \in FailureKinds, fail \in BOOLEAN : DetectFailure(kind, fail)
    \/ \E fail \in BOOLEAN : RedundantDetect(fail)
    \/ FinishTeardown
    \/ Stop
    \/ \E fail \in BOOLEAN : CloseComplete(fail)
    \/ \E h \in PeerFrames, fail \in BOOLEAN : ReceiveFrame(h, fail)
    \/ EchoClose

SpecTransport == Init /\ [][NextTransport]_vars

\* the connection state machine with the client started again after Closed
NextRestart ==
    \/ NextTransport
    \/ Restart

SpecRestart == Init /\ [][NextRestart]_vars

Next ==
    \/ EventConnected
    \/ \E e \in {"DISCONNECTED", "ERROR", "FINISH"} : EventEnd(e)
    \/ ConnectionUp
    \/ ConnectionLost
    \/ \E ev \in DataEvents \cup OtherEvents : DataEvent(ev)
    \/ EchoCheck
    \/ SendOk
    \/ SendGiveUp
    \/ EchoDone

\* The handler with the retry loop reduced to the pass that leaves it: a failed pass
\* changes only attempt and the delays waited, which SpecSend explores.
Spec == Init /\ [][Next]_vars

\* The handler with the history of the call in progress. Events are dispatched one
\* after the other by the client's task, so no event arrives before the call returned;
\* the connection may be lost while the call runs.
StepConnected ==
    /\ hEv = NoEv
    /\ EventConnected

StepEnd(e) ==
    /\ hEv = NoEv
    /\ EventEnd(e)

StepConnectionUp ==
    /\ hEv = NoEv
    /\ ConnectionUp

StepConnectionLost ==
    /\ hEv = NoEv \/ pc # "idle"
    /\ ConnectionLost

NextStep ==
    \/ StepConnected
    \/ \E e \in {"DISCONNECTED", "ERROR", "FINISH"} : StepEnd(e)
    \/ StepConnectionUp
    \/ StepConnectionLost
    \/ \E ev \in DataEvents \cup OtherEvents : DataStep(ev)
    \/ StepReturn
    \/ EchoCheck
    \/ SendOk
    \/ SendGiveUp
    \/ EchoDone

SpecStep == Init /\ [][NextStep]_vars

\* frames that arrive whole: they are handed on as they are
WholeFrames == {ev \in DataEvents : ~IsChunk(ev) /\ ev.data_len = ev.payload_len}

\* The handler at the entry of the retry loop (line 318), with a frame to echo.
InitSend ==
    /\ InitTransport
    /\ InitConn
    /\ InitCodec
    /\ InitLoop
    /\ InitTerm
    /\ InitRun
    /\ s_accumulator = ZeroAccumulator
    /\ s_accum_buffer \in {"NULL", "buf"}
    /\ heap = HeapAt(s_accum_buffer)
    /\ mem = [c \in CellStarts |-> Garbage]
    /\ test_running = TRUE
    /\ connected = TRUE
    /\ pc = "send"
    /\ \E ev \in WholeFrames :
          pending = [opcode |-> EchoOpcode(ev.op_code), len |-> ev.data_len,
                     bytes |-> FrameBytes(ev.data_len, ev.d), src |-> "frame"]
    /\ evFin \in {0, 1}
    /\ attempt = 0
    /\ lastErr = ESP_OK
    /\ rxPing = 0
    /\ txPong = <<>>
    /\ gd = GdOff
    /\ doneMsg = DoneOff
    /\ dupHandoff = FALSE
    /\ lastEvent = "DATA"
    /\ discarded = FALSE
    /\ sent = -1
    /\ waited = <<>>
    /\ tick = 0
    /\ txFrames = <<>>
    /\ hEv = NoEv
    /\ hPre = NoPre

\* a pass of while (sent < 0 && esp_websocket_client_is_connected(client))
LoopPass == SendOk \/ SendRetry \/ SendGiveUp

NextSend ==
    \/ SendOk
    \/ SendRetry
    \/ SendGiveUp
    \/ EchoDone
    \/ ConnectionLost

\* The retry loop of the echo. The handler's task keeps running, so a pass that can be
\* taken is taken; whether the transport accepts the bytes is up to the transport.
SpecSend == InitSend /\ [][NextSend]_vars /\ WF_vars(LoopPass) /\ WF_vars(EchoDone)

(***************************************************************************)
(* RUN OF ONE TEST CASE (autobahn_testee.c, run_test_case)                 *)
(* The main task runs run_test_case; the client task delivers the events   *)
(* to websocket_event_handler from start until the client is stopped or    *)
(* destroyed.                                                              *)
(***************************************************************************)
\* what run_test_case leaves alone in the handler's state
RunUnchanged ==
    UNCHANGED <<transportVars, connVars, codecVars, loopVars, termVars, ioVars, stepVars, sendVars, s_accumulator, mem,
                test_running, pc, pending, evFin, attempt, lastErr, rxPing, txPong, gd,
                doneMsg, dupHandoff, lastEvent, discarded>>

\* lines 429-467: the URI is built, the accumulator buffer is allocated if it is not
\* there yet, the client is created and the handler registered
RunEnter(uriOk, mallocOk, clientOk) ==
    /\ runPc = "idle"
    /\ caseNum < MaxCases
    /\ caseNum' = caseNum + 1
    /\ IF ~uriOk
       THEN /\ runPc' = "returned"
            /\ runRet' = "ESP_ERR_INVALID_ARG"
            /\ runHist' = NoRun
            /\ UNCHANGED s_accum_buffer
       ELSE /\ s_accum_buffer' = IF s_accum_buffer = "NULL" /\ mallocOk THEN "buf"
                                 ELSE s_accum_buffer
            /\ IF clientOk
               THEN /\ runPc' = "inited"
                    /\ runHist' = [NoRun EXCEPT !.clients = 1]
                    /\ UNCHANGED runRet
               ELSE /\ runPc' = "returned"
                    /\ runRet' = "ESP_FAIL"
                    /\ runHist' = NoRun
    /\ heap' = [heap EXCEPT !.live = IF uriOk THEN @ + MallocIfNull(s_accum_buffer, mallocOk)
                                     ELSE @]
    /\ UNCHANGED <<test_done_sem, semGiven, connected>>
    /\ RunUnchanged

\* line 473: test_done_sem = xSemaphoreCreateBinary(), NULL when the heap is exhausted
\* (lines 470-471 on Linux: static storage, never NULL)
RunCreateSem(ok) ==
    /\ runPc = "inited"
    /\ runPc' = "created"
    /\ test_done_sem' = IF ok THEN "sem" ELSE "NULL"
    /\ semGiven' = FALSE
    /\ runHist' = [runHist EXCEPT !.sems = IF ok THEN 1 ELSE 0]
    /\ UNCHANGED <<caseNum, runRet, s_accum_buffer, connected>>
    /\ UNCHANGED heap
    /\ RunUnchanged

\* lines 476-476: esp_websocket_client_start succeeds, the client task runs
RunStartOk ==
    /\ runPc = "created"
    /\ runPc' = "waiting"
    /\ UNCHANGED <<test_done_sem, semGiven, caseNum, runRet, runHist, s_accum_buffer, connected>>
    /\ UNCHANGED heap
    /\ RunUnchanged

\* lines 477-491: start failed; the semaphore is deleted if there is one, the client
\* is destroyed and the error returned
RunStartFail ==
    /\ runPc = "created"
    /\ runPc' = "returned"
    /\ runRet' = "ESP_FAIL"
    /\ runHist' = [runHist EXCEPT !.deletes = IF test_done_sem # "NULL" THEN @ + 1 ELSE @,
                                  !.destroys = @ + 1]
    /\ test_done_sem' = "NULL"
    /\ semGiven' = FALSE
    /\ UNCHANGED <<caseNum, s_accum_buffer, connected>>
    /\ UNCHANGED heap
    /\ RunUnchanged

\* line 502: xSemaphoreTake(test_done_sem, 60 s) returns because the handler gave it
RunTakeGiven ==
    /\ runPc = "waiting"
    /\ test_done_sem # "NULL"
    /\ semGiven
    /\ semGiven' = FALSE
    /\ runPc' = "woken"
    /\ UNCHANGED <<test_done_sem, caseNum, runRet, runHist, s_accum_buffer, connected>>
    /\ UNCHANGED heap
    /\ RunUnchanged

\* line 502: the 60 s expire
RunTakeTimeout ==
    /\ runPc = "waiting"
    /\ test_done_sem # "NULL"
    /\ runPc' = "woken"
    /\ UNCHANGED <<test_done_sem, semGiven, caseNum, runRet, runHist, s_accum_buffer, connected>>
    /\ UNCHANGED heap
    /\ RunUnchanged

\* line 502 with test_done_sem == NULL: the take asserts or dereferences the null
\* handle (the task is aborted), or comes back without having waited
RunTakeNull(outcome) ==
    /\ runPc = "waiting"
    /\ test_done_sem = "NULL"
    /\ runPc' = outcome
    /\ UNCHANGED <<test_done_sem, semGiven, caseNum, runRet, runHist, s_accum_buffer, connected>>
    /\ UNCHANGED heap
    /\ RunUnchanged

\* line 505: if (esp_websocket_client_is_connected(client))
RunCheckConnected ==
    /\ runPc = "woken"
    /\ runPc' = IF connected THEN "stopping" ELSE "stopped"
    /\ UNCHANGED <<test_done_sem, semGiven, caseNum, runRet, runHist, s_accum_buffer, connected>>
    /\ UNCHANGED heap
    /\ RunUnchanged

\* line 506: esp_websocket_client_stop(client); the client task ends
RunStop ==
    /\ runPc = "stopping"
    /\ pc = "idle"
    /\ runPc' = "stopped"
    /\ connected' = FALSE
    /\ runHist' = [runHist EXCEPT !.stops = @ + 1, !.badStop = @ \/ ~connected]
    /\ UNCHANGED <<test_done_sem, semGiven, caseNum, runRet, s_accum_buffer>>
    /\ UNCHANGED heap
    /\ RunUnchanged

\* lines 509-521: the client is destroyed, the semaphore deleted if there is one and
\* the handle reset, ESP_OK returned
RunDestroy ==
    /\ runPc = "stopped"
    /\ pc = "idle"
    /\ runPc' = "returned"
    /\ runRet' = "ESP_OK"
    /\ connected' = FALSE
    /\ runHist' = [runHist EXCEPT !.destroys = @ + 1,
                                  !.deletes = IF test_done_sem # "NULL" THEN @ + 1 ELSE @]
    /\ test_done_sem' = "NULL"
    /\ semGiven' = FALSE
    /\ UNCHANGED <<caseNum, s_accum_buffer>>
    /\ UNCHANGED heap
    /\ RunUnchanged

\* line 576: back in the loop over the test cases
RunReturn ==
    /\ runPc = "returned"
    /\ runPc' = "idle"
    /\ UNCHANGED <<test_done_sem, semGiven, caseNum, runRet, runHist, s_accum_buffer, connected>>
    /\ UNCHANGED heap
    /\ RunUnchanged

\* lines 588-591: all cases are done (update_reports runs a client of its own, without
\* the handler); ws_accumulator_cleanup resets the accumulator and frees the buffer
RunCleanup ==
    /\ runPc = "idle"
    /\ caseNum = MaxCases
    /\ runPc' = "done"
    /\ s_accumulator' = ws_accumulator_reset(s_accumulator)
    /\ s_accum_buffer' = "NULL"
    /\ heap' = IF s_accum_buffer # "NULL"
               THEN [heap EXCEPT !.live = @ - 1, !.frees = @ + 1]
               ELSE heap
    /\ UNCHANGED <<test_done_sem, semGiven, caseNum, runRet, runHist, connected>>
    /\ UNCHANGED <<transportVars, connVars, codecVars, loopVars, termVars, ioVars, stepVars, sendVars, mem, test_running,
                   pc, pending, evFin, attempt, lastErr, rxPing, txPong, gd, doneMsg,
                   dupHandoff, lastEvent, discarded>>

\* the client task is running: started, and neither stopped nor destroyed
ClientTaskRuns ==
    \/ runPc \in {"waiting", "woken", "stopping"}
    \/ runPc = "stopped" /\ runHist.stops = 0

RunConnectionUp == ClientTaskRuns /\ ConnectionUp
RunConnectionLost == ClientTaskRuns /\ ConnectionLost
RunEventConnected == ClientTaskRuns /\ connected /\ EventConnected
RunEventEnd(e) == ClientTaskRuns /\ ~connected /\ EventEnd(e)
RunData(ev) == ClientTaskRuns /\ DataEvent(ev)

\* the frames of the test cases: binary frames, whole and in chunks, filled with one
\* byte value
BufferEvents == {ev \in DataEvents : ev.op_code = 2 /\ ev.d = 1}

NextRun ==
    \/ \E uriOk \in BOOLEAN, mallocOk \in BOOLEAN, clientOk \in BOOLEAN :
          RunEnter(uriOk, mallocOk, clientOk)
    \/ \E ok \in BOOLEAN : RunCreateSem(ok)
    \/ RunStartOk
    \/ RunStartFail
    \/ RunTakeGiven
    \/ RunTakeTimeout
    \/ \E outcome \in {"crashed", "woken"} : RunTakeNull(outcome)
    \/ RunCheckConnected
    \/ RunStop
    \/ RunDestroy
    \/ RunReturn
    \/ RunConnectionUp
    \/ RunConnectionLost
    \/ RunEventConnected
    \/ \E e \in {"DISCONNECTED", "ERROR", "FINISH"} : RunEventEnd(e)

SpecRun == Init /\ [][NextRun]_vars

\* the test cases with the data the server sends during them, and the cleanup at the end
NextBuffer ==
    \/ NextRun
    \/ RunCleanup
    \/ \E ev \in BufferEvents : RunData(ev)
    \/ EchoCheck
    \/ SendOk
    \/ SendGiveUp
    \/ EchoDone

SpecBuffer == Init /\ [][NextBuffer]_vars

(***************************************************************************)
(* REPRODUCTION LOOP (websocket_example.c, websocket_app_start)            *)
(* The main task starts and stops one client in a loop; a one-shot timer,  *)
(* restarted by every DATA event, gives the shutdown semaphore. Time is    *)
(* counted in seconds.                                                     *)
(***************************************************************************)
LoopOthers == UNCHANGED <<transportVars, connVars, handlerVars, codecVars, termVars, ioVars>>

\* xTimerStart / xTimerReset: the timer expires one period from now
TimerRestart ==
    /\ timerLeft' = NO_DATA_TIMEOUT_SEC
    /\ quiet' = 0

\* lines 273-319: timer, semaphore and client are created, the handler registered
LoopInit ==
    /\ loopPc = "init"
    /\ loopPc' = "start"
    /\ UNCHANGED <<exConnected, timerLeft, shutdown_sema, quiet, exHist>>
    /\ LoopOthers

\* lines 338-342: esp_websocket_client_start, xTimerStart, vTaskDelay(3000)
LoopStart ==
    /\ loopPc = "start"
    /\ loopPc' = "check"
    /\ TimerRestart
    /\ UNCHANGED <<exConnected, shutdown_sema, exHist>>
    /\ LoopOthers

\* lines 344-348: if (!esp_websocket_client_is_connected(client)) { delay; continue; }
LoopNotConnected ==
    /\ loopPc = "check"
    /\ ~exConnected
    /\ loopPc' = "start"
    /\ UNCHANGED <<exConnected, timerLeft, shutdown_sema, quiet, exHist>>
    /\ LoopOthers

\* lines 353-361: the client is connected; the messages are sent and the failure provoked
LoopScenario ==
    /\ loopPc = "check"
    /\ exConnected
    /\ loopPc' = "stop"
    /\ UNCHANGED <<exConnected, timerLeft, shutdown_sema, quiet, exHist>>
    /\ LoopOthers

\* lines 365-366: esp_websocket_client_stop, vTaskDelay(3000)
LoopStop ==
    /\ loopPc = "stop"
    /\ loopPc' = "take"
    /\ exConnected' = FALSE
    /\ UNCHANGED <<timerLeft, shutdown_sema, quiet, exHist>>
    /\ LoopOthers

\* lines 369-371: if (xSemaphoreTake(shutdown_sema, 0) == pdTRUE) break;
LoopTake ==
    /\ loopPc = "take"
    /\ loopPc' = IF shutdown_sema THEN "exit" ELSE "start"
    /\ shutdown_sema' = FALSE
    /\ UNCHANGED <<exConnected, timerLeft, quiet, exHist>>
    /\ LoopOthers

\* line 374: esp_websocket_client_destroy(client)
LoopDestroy ==
    /\ loopPc = "exit"
    /\ loopPc' = "done"
    /\ exConnected' = FALSE
    /\ exHist' = [exHist EXCEPT !.destroys = @ + 1]
    /\ UNCHANGED <<timerLeft, shutdown_sema, quiet>>
    /\ LoopOthers

\* the steps of the main task
LoopTask ==
    \/ LoopInit
    \/ LoopStart
    \/ LoopNotConnected
    \/ LoopScenario
    \/ LoopStop
    \/ LoopTake
    \/ LoopDestroy

\* the started client connects, or loses its connection
ExConnects ==
    /\ loopPc \in {"check", "stop"}
    /\ ~exConnected
    /\ exConnected' = TRUE
    /\ UNCHANGED <<loopPc, timerLeft, shutdown_sema, quiet, exHist>>
    /\ LoopOthers

ExDisconnects ==
    /\ exConnected
    /\ exConnected' = FALSE
    /\ UNCHANGED <<loopPc, timerLeft, shutdown_sema, quiet, exHist>>
    /\ LoopOthers

\* lines 224-250: WEBSOCKET_EVENT_DATA ends with xTimerReset(shutdown_signal_timer)
ExData ==
    /\ exConnected
    /\ loopPc \in {"check", "stop"}
    /\ TimerRestart
    /\ UNCHANGED <<loopPc, exConnected, shutdown_sema, exHist>>
    /\ LoopOthers

\* one second passes; an expired timer fires before time goes on
Second ==
    /\ loopPc # "done"
    /\ timerLeft # 0
    /\ timerLeft' = IF timerLeft > 0 THEN timerLeft - 1 ELSE timerLeft
    /\ quiet' = IF quiet < NO_DATA_TIMEOUT_SEC THEN quiet + 1 ELSE quiet
    /\ UNCHANGED <<loopPc, exConnected, shutdown_sema, exHist>>
    /\ LoopOthers

\* lines 101-105: shutdown_signaler, the callback of the one-shot timer
shutdown_signaler ==
    /\ timerLeft = 0
    /\ timerLeft' = -1
    /\ shutdown_sema' = TRUE
    /\ exHist' = [exHist EXCEPT !.early = @ \/ quiet < NO_DATA_TIMEOUT_SEC]
    /\ UNCHANGED <<loopPc, exConnected, quiet>>
    /\ LoopOthers

NextLoop ==
    \/ LoopInit
    \/ LoopStart
    \/ LoopNotConnected
    \/ LoopScenario
    \/ LoopStop
    \/ LoopTake
    \/ LoopDestroy
    \/ ExConnects
    \/ ExDisconnects
    \/ ExData
    \/ Second
    \/ shutdown_signaler

\* the main task and the timer service keep running; whether the client connects, and
\* whether the server sends data, is up to the network
SpecLoop ==
    Init /\ [][NextLoop]_vars /\ WF_vars(LoopTask) /\ WF_vars(shutdown_signaler)

(***************************************************************************)
(* FILE-DESCRIPTOR TERMINAL (esp_modem_term_fs.cpp, FdTerminal)            *)
(* One background task waits for the descriptor to become readable and     *)
(* invokes the read callback; start(), stop() and set_read_cb() are called *)
(* from other tasks and talk to it through the bits of a SignalGroup.      *)
(***************************************************************************)
TermOthers == UNCHANGED <<transportVars, connVars, handlerVars, codecVars, loopVars, ioVars>>

Callbacks == 1..MaxCallbacks

\* a loop that does not look at TASK_START
LoopCondition_ignores_stop(bits) == TRUE

\* while (signal.is_any(TASK_START))
LoopCondition(bits) == "START" \in bits

\* a task that keeps the callback after it reported completion
AfterCall_keeps(priv, ret) == priv

\* if (on_data_priv(nullptr, 0)) on_data_priv = nullptr;
AfterCall(priv, ret) == IF ret THEN 0 ELSE priv

\* void start(): signal.set(TASK_START)
TermStart ==
    /\ tbits' = tbits \cup {"START"}
    /\ tHist' = [tHist EXCEPT !.restarted = @ \/ tHist.stopCalled]
    /\ UNCHANGED <<on_data, on_data_priv, tpc, sel, selWait, readable, fd, cbPc, cbArg>>
    /\ TermOthers

\* void stop(): signal.clear(TASK_START); also what ~FdTerminal does
TermStop ==
    /\ tbits' = tbits \ {"START"}
    /\ tHist' = [tHist EXCEPT !.stopCalled = TRUE]
    /\ UNCHANGED <<on_data, on_data_priv, tpc, sel, selWait, readable, fd, cbPc, cbArg>>
    /\ TermOthers

\* set_read_cb(f) is entered: the assignment on_data = std::move(f) begins
SetCbBegin(f) ==
    /\ cbPc = "idle"
    /\ cbPc' = "writing"
    /\ cbArg' = f
    /\ UNCHANGED <<tbits, on_data, on_data_priv, tpc, sel, selWait, readable, fd, tHist>>
    /\ TermOthers

\* line 54: the assignment is complete
SetCbAssign ==
    /\ cbPc = "writing"
    /\ cbPc' = "written"
    /\ on_data' = cbArg
    /\ UNCHANGED <<tbits, on_data_priv, tpc, sel, selWait, readable, fd, cbArg, tHist>>
    /\ TermOthers

\* line 55: signal.set(TASK_PARAMS); set_read_cb returns
SetCbSignal ==
    /\ cbPc = "written"
    /\ cbPc' = "idle"
    /\ tbits' = tbits \cup {"PARAMS"}
    /\ UNCHANGED <<on_data, on_data_priv, tpc, sel, selWait, readable, fd, cbArg, tHist>>
    /\ TermOthers

\* the device sends data
DataArrives ==
    /\ fd = "open"
    /\ ~readable
    /\ readable' = TRUE
    /\ UNCHANGED <<tbits, on_data, on_data_priv, tpc, sel, selWait, fd, cbPc, cbArg, tHist>>
    /\ TermOthers

\* one second passes while the task waits in select; the wait ends at the timeout
TermSecond ==
    /\ tpc = "select"
    /\ selWait < SELECT_TIMEOUT_SEC
    /\ selWait' = selWait + 1
    /\ UNCHANGED <<tbits, on_data, on_data_priv, tpc, sel, readable, fd, cbPc, cbArg, tHist>>
    /\ TermOthers

\* line 98: the task starts to run, signal.set(TASK_INIT)
TaskInit ==
    /\ tpc = "created"
    /\ tpc' = "wait"
    /\ tbits' = tbits \cup {"INIT"}
    /\ UNCHANGED <<on_data, on_data_priv, sel, selWait, readable, fd, cbPc, cbArg, tHist>>
    /\ TermOthers

\* lines 99-106: signal.wait_any(TASK_START | TASK_STOP, portMAX_DELAY) returns once
\* one of the bits is set; on TASK_STOP the task returns
TaskWake ==
    /\ tpc = "wait"
    /\ tbits \cap {"START", "STOP"} # {}
    /\ tpc' = IF "STOP" \in tbits THEN "returned" ELSE "loop"
    /\ UNCHANGED <<tbits, on_data, on_data_priv, sel, selWait, readable, fd, cbPc, cbArg, tHist>>
    /\ TermOthers

\* lines 108-118: the loop condition, and select is entered with a timeout of 1 s
TaskLoopCheck ==
    /\ tpc = "loop"
    /\ tpc' = IF LoopCondition(tbits) THEN "select" ELSE "returned"
    /\ selWait' = IF LoopCondition(tbits) THEN 0 ELSE selWait
    /\ UNCHANGED <<tbits, on_data, on_data_priv, sel, readable, fd, cbPc, cbArg, tHist>>
    /\ TermOthers

\* line 118: select returns: 1 when the descriptor is readable, 0 at the timeout,
\* -1 on an error
TaskSelectReturns(s) ==
    /\ tpc = "select"
    /\ \/ s = 1 /\ readable
       \/ s = 0 /\ ~readable /\ selWait = SELECT_TIMEOUT_SEC
       \/ s = -1
    /\ sel' = s
    /\ tpc' = "params"
    /\ tHist' = [tHist EXCEPT !.obsStopped = "START" \notin tbits,
                              !.selFailed = @ \/ s = -1]
    /\ UNCHANGED <<tbits, on_data, on_data_priv, selWait, readable, fd, cbPc, cbArg>>
    /\ TermOthers

\* line 119: if (signal.is_any(TASK_PARAMS))
TaskParamsCheck ==
    /\ tpc = "params"
    /\ tpc' = IF "PARAMS" \in tbits THEN "copy" ELSE "dispatch"
    /\ UNCHANGED <<tbits, on_data, on_data_priv, sel, selWait, readable, fd, cbPc, cbArg, tHist>>
    /\ TermOthers

\* line 120: on_data_priv = on_data. While another task is assigning on_data the copy
\* is a data race: it gives the old callback, the new one, or neither
TaskCopy ==
    /\ tpc = "copy"
    /\ tpc' = "clear"
    /\ on_data_priv' \in (IF cbPc = "writing" THEN {on_data, cbArg, Torn} ELSE {on_data})
    /\ tHist' = [tHist EXCEPT !.adopted = on_data_priv']
    /\ UNCHANGED <<tbits, on_data, sel, selWait, readable, fd, cbPc, cbArg>>
    /\ TermOthers

\* line 121: signal.clear(TASK_PARAMS)
TaskClear ==
    /\ tpc = "clear"
    /\ tpc' = "dispatch"
    /\ tbits' = tbits \ {"PARAMS"}
    /\ UNCHANGED <<on_data, on_data_priv, sel, selWait, readable, fd, cbPc, cbArg, tHist>>
    /\ TermOthers

\* lines 124-137: an error leaves the loop, a timeout or a wake-up without callback goes
\* round, a readable descriptor with a callback leads to its invocation
TaskDispatch ==
    /\ tpc = "dispatch"
    /\ tpc' = IF sel < 0 THEN "returned"
              ELSE IF sel > 0 /\ on_data_priv # 0 THEN "call"
              ELSE "loop"
    /\ UNCHANGED <<tbits, on_data, on_data_priv, sel, selWait, readable, fd, cbPc, cbArg, tHist>>
    /\ TermOthers

\* lines 131-133: the callback runs and reads what it wants; when it returns true it is
\* dropped. A torn std::function cannot be called.
TaskCall(ret, left) ==
    /\ tpc = "call"
    /\ IF on_data_priv = Torn
       THEN /\ tpc' = "crashed"
            /\ UNCHANGED <<on_data_priv, readable, tHist>>
       ELSE /\ tpc' = "loop"
            /\ on_data_priv' = AfterCall(on_data_priv, ret)
            /\ readable' = left
            /\ tHist' = [tHist EXCEPT !.calls = IF @ < MaxCalls THEN @ + 1 ELSE @,
                                      !.lastRet = ret]
    /\ UNCHANGED <<tbits, on_data, sel, selWait, fd, cbPc, cbArg>>
    /\ TermOthers

\* line 85: Task::Delete() after task() returned: the task is deleted on the spot, or
\* the call comes back and the lambda goes on
TaskDelete(comesBack) ==
    /\ tpc = "returned"
    /\ tpc' = IF comesBack THEN "closing" ELSE "gone"
    /\ UNCHANGED <<tbits, on_data, on_data_priv, sel, selWait, readable, fd, cbPc, cbArg, tHist>>
    /\ TermOthers

\* lines 86-88: if (t->fd >= 0) close(t->fd)
TaskClose ==
    /\ tpc = "closing"
    /\ tpc' = "gone"
    /\ fd' = "closed"
    /\ readable' = FALSE
    /\ tHist' = [tHist EXCEPT !.closes = @ + 1]
    /\ UNCHANGED <<tbits, on_data, on_data_priv, sel, selWait, cbPc, cbArg>>
    /\ TermOthers

\* the steps of the terminal's task
TermTask ==
    \/ TaskInit
    \/ TaskWake
    \/ TaskLoopCheck
    \/ \E s \in {-1, 0, 1} : TaskSelectReturns(s)
    \/ TaskParamsCheck
    \/ TaskCopy
    \/ TaskClear
    \/ TaskDispatch
    \/ \E ret \in BOOLEAN, left \in BOOLEAN : TaskCall(ret, left)
    \/ \E comesBack \in BOOLEAN : TaskDelete(comesBack)
    \/ TaskClose

NextTerm ==
    \/ TermStart
    \/ TermStop
    \/ \E f \in Callbacks : SetCbBegin(f)
    \/ SetCbAssign
    \/ SetCbSignal
    \/ DataArrives
    \/ TermSecond
    \/ TaskInit
    \/ TaskWake
    \/ TaskLoopCheck
    \/ \E s \in {-1, 0, 1} : TaskSelectReturns(s)
    \/ TaskParamsCheck
    \/ TaskCopy
    \/ TaskClear
    \/ TaskDispatch
    \/ \E ret \in BOOLEAN, left \in BOOLEAN : TaskCall(ret, left)
    \/ \E comesBack \in BOOLEAN : TaskDelete(comesBack)
    \/ TaskClose

SpecTerm == Init /\ [][NextTerm]_vars

\* the task is scheduled as long as it can run, and time goes on
SpecTermFair == SpecTerm /\ WF_vars(TermTask) /\ WF_vars(TermSecond)

(***************************************************************************)
(* FdTerminal::read and FdTerminal::write                                  *)
(***************************************************************************)
IoOthers == UNCHANGED <<transportVars, connVars, handlerVars, codecVars, loopVars, termVars>>

Errnos == {"EAGAIN", "EIO"}

\* what ::read and ::write can return for a request of len bytes
Transferred(len) == {-1} \cup (0..len)

\* a read that hands the result of ::read through
FdRead_raw(size, errno) == size

\* int FdTerminal::read: a negative size is logged unless errno is EAGAIN, and gives 0
FdRead(size, errno) == IF size < 0 THEN 0 ELSE size

\* int FdTerminal::write: a negative size is logged and gives 0
FdWrite(size) == IF size < 0 THEN 0 ELSE size

IoRead(len, size, errno) ==
    /\ ioOp' = "read"
    /\ ioLen' = len
    /\ ioRes' = size
    /\ ioErrno' = errno
    /\ ioOut' = FdRead(size, errno)
    /\ IoOthers

IoWrite(len, size, errno) ==
    /\ ioOp' = "write"
    /\ ioLen' = len
    /\ ioRes' = size
    /\ ioErrno' = errno
    /\ ioOut' = FdWrite(size)
    /\ IoOthers

NextIo ==
    \/ \E len \in 0..MaxLen, errno \in Errnos : \E size \in Transferred(len) : IoRead(len, size, errno)
    \/ \E len \in 0..MaxLen, errno \in Errnos : \E size \in Transferred(len) : IoWrite(len, size, errno)

SpecIo == Init /\ [][NextIo]_vars

(***************************************************************************)
(* Claims about the transport stack.                                       *)
(***************************************************************************)
LastClose == closeLog[Len(closeLog)]

\* C1: for any sequence of close() calls on a layer, the layer's close handler runs
\* exactly once, the session is never freed twice, and every call after the first
\* returns 0 without running any handler.
C1_CloseHandlerRunsOnce ==
    /\ \A t \in Layers :
          (\E i \in 1..Len(closeLog) : closeLog[i].layer = t) => t_runs[t] = 1
    /\ \A t \in Layers : t_runs[t] <= 1
    /\ ~doubleFree
    /\ \A i \in 1..Len(closeLog) :
          closeLog[i].wasClosed => (closeLog[i].ret = 0 /\ closeLog[i].ran = {})

\* some layer has been closed three times by direct calls
C1_Witness ==
    \E t \in Layers :
        /\ Cardinality({i \in 1..Len(closeLog) : closeLog[i].layer = t}) >= 3
        /\ t_runs[t] = 1

\* C2: once close() on the WebSocket layer has returned, the layer it wraps is closed
\* and its release has been performed exactly once, in whatever order the layers
\* were closed.
C2_CloseCascades ==
    t_closed["ws"] => (t_closed["ssl"] /\ t_runs["ssl"] = 1 /\ tls = "freed" /\ ~doubleFree)

\* both orders: ssl closed directly before ws, and ssl closed again after ws
C2_Witness ==
    /\ Len(closeLog) >= 3
    /\ closeLog[1].layer = "ssl"
    /\ closeLog[2].layer = "ws"
    /\ closeLog[3].layer = "ssl"
    /\ t_closed["ws"]

\* C3: close() leaves the layer closed even when its handler reported an error, and
\* a close() after a failed close() returns 0 and runs no handler.
C3_ClosedEvenOnError ==
    /\ \A i \in 1..Len(closeLog) : t_closed[closeLog[i].layer]
    /\ \A i, j \in 1..Len(closeLog) :
          (i < j /\ closeLog[i].ret # 0 /\ closeLog[j].layer = closeLog[i].layer)
              => (closeLog[j].ret = 0 /\ closeLog[j].ran = {})
    /\ \A t \in closeFailed : t_runs[t] = 1

\* a failed close() followed by another close() of the same layer
C3_Witness ==
    \E i, j \in 1..Len(closeLog) :
        /\ i < j
        /\ closeLog[i].ret # 0
        /\ closeLog[j].layer = closeLog[i].layer
        /\ closeLog[j].ret = 0

\* C4: a fatal failure yields exactly one Error event and, once torn down, exactly
\* one Disconnected event after it, and every layer is released exactly once, however
\* many call sites detected the failure.
C4_OneTeardownPerFailure ==
    detections >= 1 =>
        /\ Count(connEvents, "Error") = 1
        /\ \A l \in Layers : t_runs[l] = 1
        /\ ~doubleFree
        /\ Count(connEvents, "Disconnected") = (IF connState = "Closed" THEN 1 ELSE 0)
        /\ connState = "Closed" => connEvents[Len(connEvents)] = "Disconnected"

\* the failure was detected by several call sites and the teardown is over
C4_Witness ==
    /\ detections = MaxDetections
    /\ connState = "Closed"
    /\ Count(connEvents, "Error") = 1

(***************************************************************************)
(* Claims about the echo handler and the accumulator.                      *)
(***************************************************************************)
HandsOn == pc \in {"echo", "send"}

\* C5: when the last chunk of a delivery whose chunks arrived in order with consistent
\* offsets has been handled, the message handed on has the declared total length and
\* is byte for byte the concatenation of the chunks.
C5_ReassembledPayloadIdentical ==
    (gd.on /\ gd.done /\ HandsOn) =>
        /\ pending.src = "accumulator"
        /\ pending.len = gd.total
        /\ pending.bytes = gd.bytes

\* C6: a completed message is handed on exactly once: the accumulator is inactive
\* after the completing chunk, and delivering that chunk again does not hand the
\* message on a second time.
C6_HandedOnExactlyOnce ==
    /\ (gd.on /\ gd.done) => ~s_accumulator.active
    /\ ~dupHandoff

\* C7: the first frame (text or binary, fin = 0) of a message fragmented at WebSocket
\* level is joined with its continuation frames: it is never handed on as a message
\* of its own.
C7_WsFragmentsJoined ==
    ~(pc = "send" /\ pending.src = "frame" /\ pending.opcode \in {1, 2} /\ evFin = 0)

\* C8: after a chunk was rejected with the size-limit error the accumulator is
\* inactive, whatever its state was before.
C8_OversizeLeavesInactive ==
    lastErr = ESP_ERR_INVALID_SIZE => ~s_accumulator.active

\* C9: received <= expected_len <= capacity in every reachable state.
C9_AccumulatorBounds ==
    /\ s_accumulator.received <= s_accumulator.expected_len
    /\ s_accumulator.expected_len <= s_accumulator.capacity

\* a message is partly received
C9_Witness ==
    /\ s_accumulator.active
    /\ 0 < s_accumulator.received
    /\ s_accumulator.received < s_accumulator.expected_len

C11_SkippedFramesLeaveAccumulator ==
    [][(test_running /\ connected /\ pc = "idle"
           /\ lastEvent' \in {"DATA_CONTROL", "DATA_UNSUPPORTED"})
          => /\ s_accumulator' = s_accumulator
             /\ mem' = mem
             /\ pc' = "idle"
             /\ pending' = NoMsg]_vars

\* a frame with an unsupported opcode was skipped between two chunks of a message
C11_Witness ==
    /\ lastEvent = "DATA_UNSUPPORTED"
    /\ test_running /\ connected
    /\ s_accumulator.active
    /\ s_accumulator.received = BUFFER_SIZE
    /\ s_accumulator.expected_len = 2 * BUFFER_SIZE
    /\ mem[0] \in Data

C13_InactiveAcrossLifecycle ==
    /\ [](lastEvent \in {"DISCONNECTED", "ERROR", "FINISH"} => ~s_accumulator.active)
    /\ [](~test_running => ~s_accumulator.active)
    /\ [][(~test_running /\ lastEvent' = "CONNECTED") => ~s_accumulator'.active]_vars

\* a new connection is reported after one that ended with a message partly received
C13_Witness ==
    /\ lastEvent = "CONNECTED"
    /\ test_running
    /\ ~s_accumulator.active
    /\ mem[0] \in Data
    /\ mem[BUFFER_SIZE] = Garbage

\* the chunks that begin a chunked message
Offset0Chunks == {ev \in DataEvents : IsChunk(ev) /\ ev.payload_offset = 0}

\* C14: a chunk with offset 0 that arrives while the accumulator is active starts a
\* new message that preempts the previous one: after it the accumulator counts from the
\* new chunk only, expects the new total, carries the new opcode, and the start of the
\* buffer holds the new chunk's bytes.
C14_OffsetZeroPreempts ==
    [][\A ev \in Offset0Chunks :
          (test_running /\ connected /\ s_accumulator.active /\ DataEvent(ev))
             => /\ s_accumulator'.received = ev.data_len
                /\ s_accumulator'.expected_len = ev.payload_len
                /\ s_accumulator'.opcode = ev.op_code
                /\ mem'[0] = ev.d]_vars

(***************************************************************************)
(* Claims about the echo's retry loop.                                     *)
(***************************************************************************)
\* C15: the delays before retries 1..6 are 1, 1, 1, 2, 4, 8 ticks and 32 ticks before
\* every later retry; a send that is refused five times and then accepted reports the
\* bytes written, after no more retries than the backoff table has entries.
C15_BackoffSchedule ==
    /\ \A i \in 1..Len(waited) :
          waited[i] = IF i <= 6 THEN <<1, 1, 1, 2, 4, 8>>[i] ELSE 32
    /\ (pc = "sent" /\ sent >= 0) => sent = pending.len
    /\ (pc = "sent" /\ sent >= 0 /\ Len(waited) = 5) =>
          (waited = <<1, 1, 1, 2, 4>> /\ Len(waited) <= BackoffLen)

\* a frame of one buffer was refused five times and then accepted
C15_Witness ==
    /\ pc = "sent"
    /\ Len(waited) = 5
    /\ sent = BUFFER_SIZE
    /\ pending.len = BUFFER_SIZE

\* C16: the retry loop always terminates: a send that has begun ends with a success
\* or a reported failure, also when the transport keeps refusing and the client
\* stays connected.
C16_SendTerminates ==
    (pc = "send") ~> (pc = "sent")

(***************************************************************************)
(* Claims about the frame codec.                                           *)
(***************************************************************************)
\* C19: for every valid frame header, parsing the bytes encode_frame produced gives
\* back the opcode, the fin flag and the payload length that were encoded.
C19_EncodeParseRoundTrip ==
    codecOut # NoHeader =>
        /\ codecOut.kind = "header"
        /\ codecOut.opcode = codecIn.opcode
        /\ codecOut.fin = codecIn.fin
        /\ codecOut.len = codecIn.len
        /\ codecOut.consumed = Len(codecBytes)

\* a binary frame without fin whose length needs the 64-bit form went round
C19_Witness ==
    /\ codecOut # NoHeader
    /\ codecIn.opcode = 2
    /\ codecIn.fin = 0
    /\ codecIn.len = 65536
    /\ Len(codecBytes) = 14

(***************************************************************************)
(* Claims about the connection state machine.                              *)
(***************************************************************************)
\* C17: the consumer sees Connected first, then Data and Error events, then
\* Disconnected last: no event is delivered before Connected or after Disconnected,
\* and nothing is delivered before the handshake is over.
C17_EventsInOrder ==
    /\ \A i \in 1..Len(connEvents) :
          /\ (connEvents[i] = "Connected") <=> (i = 1)
          /\ (connEvents[i] = "Disconnected") => (i = Len(connEvents))
    /\ (connState \in {"Init", "Connecting"}) => (connEvents = <<>>)
    /\ (connState = "Closed") <=>
          (connEvents # <<>> /\ connEvents[Len(connEvents)] = "Disconnected")

\* two data frames were delivered, then the connection failed and was torn down
C17_Witness ==
    connEvents = <<"Connected", "Data", "Data", "Error", "Disconnected">>

\* C18: once the peer has sent a frame with a reserved opcode, with reserved bits set,
\* a control frame of more than 125 bytes or a masked frame, the connection has left
\* Open on the fatal path, one close frame with status code 1002 has been sent and
\* every transport layer has been closed exactly once.
C18_ProtocolViolationIsFatal ==
    violation =>
        /\ connState \in {"Closing", "Closed"}
        /\ detections >= 1
        /\ Cardinality({i \in 1..Len(wireOut) : wireOut[i] = [op |-> "close", code |-> 1002]}) = 1
        /\ \A l \in Layers : t_runs[l] = 1
        /\ ~doubleFree

\* a masked frame arrived, several call sites asked for the teardown, all is closed
C18_Witness ==
    /\ violation
    /\ lastRx.mask = 1
    /\ detections = MaxDetections
    /\ connState = "Closed"

\* C20: when a connection on which the peer sent a close frame is closed, the close
\* frame has been echoed with its status code, and no Data event is delivered after
\* a close frame was received or sent.
C20_CloseEchoedAndNoDataAfter ==
    /\ (closeRx # 0 /\ connState = "Closed") =>
          \E i \in 1..Len(wireOut) : wireOut[i] = [op |-> "close", code |-> closeRx]
    /\ closedAt >= 0 =>
          \A i \in (closedAt + 1)..Len(connEvents) : connEvents[i] # "Data"

\* the peer closed with 1001, sent a data frame after it, and the connection is closed
C20_Witness ==
    /\ closeRx = 1001
    /\ rxLate
    /\ lastRx.opcode \in DataOpcodes
    /\ connState = "Closed"
    /\ wireOut = <<[op |-> "close", code |-> 1001]>>


(***************************************************************************)
(* Claims about the send path.                                             *)
(***************************************************************************)
SumLen(frames) == LET RECURSIVE Sum(_)
                      Sum(i) == IF i = 0 THEN 0 ELSE Sum(i - 1) + frames[i].len
                  IN  Sum(Len(frames))

\* C21: an echo longer than one transport buffer goes out as several frames of at most
\* one buffer each, of which only the last carries fin = 1 and only the first the
\* message's opcode; an echo that fits in one buffer goes out as one frame with fin = 1.
C21_SendPathSegments ==
    (pc = "sent" /\ sent >= 0) =>
        /\ txFrames # <<>>
        /\ SumLen(txFrames) = pending.len
        /\ \A i \in 1..Len(txFrames) :
              /\ txFrames[i].len <= BUFFER_SIZE
              /\ txFrames[i].fin = (IF i = Len(txFrames) THEN 1 ELSE 0)
              /\ txFrames[i].opcode = (IF i = 1 THEN pending.opcode ELSE 0)
        /\ (pending.len <= BUFFER_SIZE) <=> (Len(txFrames) = 1)

\* a reassembled message of two buffers was echoed as two frames
C21_Witness ==
    /\ pc = "sent"
    /\ sent = 2 * BUFFER_SIZE
    /\ pending.src = "accumulator"
    /\ Len(txFrames) = 2
    /\ txFrames[1].fin = 0
    /\ txFrames[2].fin = 1


(***************************************************************************)
(* Claims about one call of the handler with a DATA event.                 *)
(***************************************************************************)
\* the call that begins with this step handles a data frame while the test is running
\* and the client is connected
HandlesData == hEv = NoEv /\ hEv' # NoEv /\ hEv'.op_code \in {0, 1, 2} /\ test_running /\ connected

\* the event declares a total longer than its own bytes, or a nonzero offset
DeclaresChunk(ev) == ev.payload_len > ev.data_len \/ ev.payload_offset # 0

\* C22: a data event is accumulated if and only if its total length exceeds its own
\* length or its offset is nonzero; any other data event is handed on at once as a
\* message of exactly its own bytes, and accumulator and buffer stay as they were.
C22_ChunkedIffDeclared ==
    [][HandlesData =>
          IF DeclaresChunk(hEv')
          THEN pending' = NoMsg \/ pending'.src = "accumulator"
          ELSE /\ pc' = "echo"
               /\ pending' = [opcode |-> hEv'.op_code, len |-> hEv'.data_len,
                              bytes |-> FrameBytes(hEv'.data_len, hEv'.d), src |-> "frame"]
               /\ s_accumulator' = s_accumulator
               /\ mem' = mem]_vars

\* a whole frame of one buffer arrived in the middle of an accumulation and was echoed
C22_Witness ==
    /\ hEv # NoEv
    /\ ~DeclaresChunk(hEv)
    /\ hEv.data_len = BUFFER_SIZE
    /\ hPre.running /\ hPre.connected
    /\ hPre.acc.active
    /\ hPre.acc.received = BUFFER_SIZE
    /\ pc = "sent"
    /\ sent = BUFFER_SIZE
    /\ s_accumulator = hPre.acc
    /\ mem = hPre.mem


\* C23: a message is handed on from the accumulator only when a delivery that began at
\* offset 0 and went on without a gap has covered every position up to the expected
\* length.
C23_CompleteOnlyWhenCovered ==
    (HandsOn /\ pending.src = "accumulator") =>
        /\ gd.on
        /\ gd.done
        /\ gd.total = pending.len


\* C24: a message reassembled from an in-order delivery is handed on with the opcode of
\* the delivery's first chunk, and that opcode is text or binary, never continuation.
C24_HandedOnWithFirstOpcode ==
    (HandsOn /\ pending.src = "accumulator" /\ gd.on /\ gd.done) =>
        /\ pending.opcode = gd.op
        /\ pending.opcode \in {1, 2}


\* C25: the accumulator becomes active only in a call whose chunk has offset 0; a chunk
\* with a nonzero offset that finds the accumulator inactive starts no accumulation
\* and hands nothing on.
C25_ActiveOnlyFromOffsetZero ==
    [][/\ (~s_accumulator.active /\ s_accumulator'.active) =>
              (hEv' # NoEv /\ hEv'.payload_offset = 0)
       /\ (HandlesData /\ hEv'.payload_offset > 0 /\ ~s_accumulator.active) =>
              (~s_accumulator'.active /\ pending' = NoMsg)]_vars


\* the chunk ends beyond the capacity, or beyond the expected length in force when the
\* handler compares: the accumulation's, which is the total the chunk declares
ChunkOverflows(ev) ==
    /\ IsChunk(ev)
    /\ \/ ev.payload_offset + ev.data_len > MAX_FRAGMENTED_PAYLOAD
       \/ ev.payload_offset + ev.data_len > ev.payload_len

TotalChanged(ev) ==
    /\ IsChunk(ev)
    /\ ev.payload_offset > 0
    /\ s_accumulator.active
    /\ ev.payload_len # s_accumulator.expected_len

\* C27: when a chunk at a nonzero offset declares another total than the accumulation
\* in progress, the partial message is given up and nothing of it is handed on; if an
\* accumulation is in progress afterwards it expects the new total.
C27_TotalChangeDiscards ==
    [][(HandlesData /\ TotalChanged(hEv')) =>
          /\ pending' = NoMsg
          /\ pc' = "idle"
          /\ s_accumulator'.active => s_accumulator'.expected_len = hEv'.payload_len]_vars


\* the handler is entered for a DATA event while the test is not running or the client
\* is not connected
HandlesDataUnready == hEv = NoEv /\ hEv' # NoEv /\ (~test_running \/ ~connected)

\* C28: a DATA event handled while the test is not running or the client is not
\* connected produces no echo and leaves the accumulator inactive; a message that is
\* complete when the client is no longer connected is dropped without an echo, and
\* frames are only ever sent while the client is connected.
C28_NoEchoUnlessReady ==
    [][/\ HandlesDataUnready =>
             /\ pc' = "idle"
             /\ pending' = NoMsg
             /\ txFrames' = <<>>
             /\ ~s_accumulator'.active
       /\ (pc = "echo" /\ ~connected) =>
             /\ pc' = "idle"
             /\ pending' = NoMsg
             /\ txFrames' = <<>>
             /\ sent' = -1
             /\ ~s_accumulator'.active
       /\ (txFrames' # <<>> /\ txFrames' # txFrames) => connected]_vars

\* the last chunk of a message arrived while the client was connected, the connection
\* was lost before the echo, and the handler is back with nothing sent
C28_Witness ==
    /\ hEv # NoEv
    /\ IsChunk(hEv)
    /\ hEv.payload_offset = BUFFER_SIZE
    /\ hEv.payload_offset + hEv.data_len = hEv.payload_len
    /\ hPre.running
    /\ hPre.connected
    /\ hPre.acc.active
    /\ hPre.acc.received = BUFFER_SIZE
    /\ ~connected
    /\ pc = "idle"
    /\ pending = NoMsg
    /\ sent = -1
    /\ txFrames = <<>>
    /\ ~s_accumulator.active


\* C29: whenever a connection has reached Closed, the TLS session of that connection
\* has been released and every layer's close handler has run exactly once for each
\* connection opened so far, the restarted ones included.
C29_ReleaseAgainAfterRestart ==
    connState = "Closed" =>
        /\ tls = "freed"
        /\ \A l \in Layers : t_runs[l] = restarts + 1


\* C30: run_test_case is never aborted, and when it has returned every client handle
\* it created has been destroyed exactly once, every semaphore it created has been
\* deleted exactly once, test_done_sem is NULL again, and stop was called at most
\* once and only on a connected client.
C30_RunCleansUpAndReturns ==
    /\ runPc # "crashed"
    /\ runHist.destroys <= runHist.clients
    /\ runHist.deletes <= runHist.sems
    /\ runHist.stops <= 1
    /\ ~runHist.badStop
    /\ runPc = "returned" =>
          /\ runHist.destroys = runHist.clients
          /\ runHist.deletes = runHist.sems
          /\ test_done_sem = "NULL"


\* C31: the heap holds exactly one buffer while s_accum_buffer is set and none while it
\* is NULL (no allocation overwrites a pointer in use), nothing is freed before the
\* cleanup after the last test case, the cleanup frees the buffer once, and no chunk is
\* copied into a NULL or freed buffer.
C31_BufferOwnedOnce ==
    /\ heap.live = (IF s_accum_buffer = "NULL" THEN 0 ELSE 1)
    /\ ~heap.badCopy
    /\ heap.frees <= 1
    /\ heap.frees = 1 => runPc = "done"
    /\ runPc = "done" => heap.live = 0 /\ s_accum_buffer = "NULL"

\* the last test case is over, chunks were copied into the buffer, and it has been freed
C31_Witness ==
    /\ runPc = "done"
    /\ caseNum = MaxCases
    /\ heap.frees = 1
    /\ mem[0] \in Data
    /\ mem[BUFFER_SIZE] \in Data


InReadLoop == tpc \in {"loop", "select", "params", "copy", "clear", "dispatch", "call"}

\* C33: the task never waits in select longer than the timeout of one second, it enters
\* select only from a loop check that found TASK_START set, and a loop check that finds
\* TASK_START cleared leaves the read loop without another wait.
C33_StopSeenAtLoopCheck ==
    [][/\ tpc' = "select" => selWait' <= SELECT_TIMEOUT_SEC
       /\ (tpc # "select" /\ tpc' = "select") => (tpc = "loop" /\ "START" \in tbits)
       /\ (tpc = "loop" /\ "START" \notin tbits /\ tpc' # tpc) => tpc' = "returned"]_vars

\* stop() was called while the task waited in select; the wait ran into its timeout and
\* the task has left the loop
C33_Witness ==
    /\ tHist.stopCalled
    /\ "START" \notin tbits
    /\ tHist.obsStopped
    /\ sel = 0
    /\ selWait = SELECT_TIMEOUT_SEC
    /\ tpc = "returned"


\* C34: no callback update is lost: when no set_read_cb is under way and no update is
\* signalled (TASK_PARAMS is clear), the callback the task adopted last is the one the
\* last set_read_cb stored.
C34_NoUpdateLost ==
    (cbPc = "idle" /\ "PARAMS" \notin tbits) => tHist.adopted = on_data


\* C35: once stop() has been called and TASK_START stays cleared, the task eventually
\* terminates with the descriptor closed, and the descriptor is never closed twice.
C35_StopTerminatesTask ==
    /\ <>[](tHist.stopCalled /\ "START" \notin tbits) => <>(tpc = "gone" /\ fd = "closed")
    /\ [](tHist.closes <= 1)


\* C36: the callback is never invoked for a readable event that select reported when
\* stop() had already cleared TASK_START.
C36_NoCallAfterStop ==
    tpc = "call" => ~tHist.obsStopped


\* C37: after a stop() followed by a start(), with TASK_START set and no error of select,
\* the task is still there to wait for readable events: it has not left task().
C37_RestartResumes ==
    (tHist.restarted /\ "START" \in tbits /\ ~tHist.selFailed)
        => tpc \notin {"returned", "closing", "gone"}


\* C38: an invocation begins only for a readable wake-up with a callback held, and every
\* such wake-up leads to one; an invocation that returns true leaves the task without
\* callback, one that returns false leaves the callback in place; the task gets a
\* callback again only by adopting on_data after set_read_cb has set TASK_PARAMS.
C38_CallbackOneShot ==
    [][/\ (tpc # "call" /\ tpc' = "call")
              => (tpc = "dispatch" /\ sel > 0 /\ on_data_priv # 0)
       /\ (tpc = "dispatch" /\ tpc' # tpc /\ sel > 0 /\ on_data_priv # 0) => tpc' = "call"
       /\ (tpc = "call" /\ tpc' = "loop")
              => on_data_priv' = (IF tHist'.lastRet THEN 0 ELSE on_data_priv)
       /\ (on_data_priv = 0 /\ on_data_priv' # 0) => (tpc = "copy" /\ "PARAMS" \in tbits)
       /\ ("PARAMS" \notin tbits /\ "PARAMS" \in tbits') => cbPc = "written"]_vars

\* the callback returned true, and the next readable wake-up finds the task without
\* callback
C38_Witness ==
    /\ tHist.lastRet
    /\ tHist.calls = 1
    /\ on_data_priv = 0
    /\ "PARAMS" \notin tbits
    /\ tpc = "dispatch"
    /\ sel = 1


\* C39: read and write never return a negative value: a failed underlying call gives 0,
\* a successful one gives the number of bytes it transferred, at most len.
C39_TransferNeverNegative ==
    ioOp # "none" =>
        /\ ioOut >= 0
        /\ ioOut <= ioLen
        /\ ioRes < 0 => ioOut = 0
        /\ ioRes >= 0 => ioOut = ioRes

\* a read that found nothing to read: ::read failed with EAGAIN
C39_Witness ==
    /\ ioOp = "read"
    /\ ioLen = MaxLen
    /\ ioRes = -1
    /\ ioErrno = "EAGAIN"
    /\ ioOut = 0

=============================================================================
